---- MODULE Spec2Model ----
(***************************************************************************)
(* Model of the FinDocGPT backend's financial scoring services:            *)
(*   app/services/financial/strategy_service.py  (StrategyService)         *)
(*   app/api/v1/endpoints/strategy.py            (POST /strategy/recommend)*)
(*   app/services/financial/forecast_service.py  (ForecastService)         *)
(*   app/api/v1/endpoints/forecast.py            (POST /forecast/)         *)
(*   app/services/ai/anomaly_detector.py         (AnomalyDetector)         *)
(*   app/api/v1/endpoints/documents.py           (POST /documents/upload)  *)
(*   python_backend/main.py                      (POST /api/sec-analysis,  *)
(*                                                generate_mock_sec_data)  *)
(*                                                                         *)
(* Numbers.  Scores, weights and thresholds are decimal fractions with at  *)
(* most five decimals; they are held as integers in units of 1/One         *)
(* (One = 100000 stands for 1.0).  Prices are whole currency units on      *)
(* input; target price and stop loss are held in units of 1/One.  A        *)
(* confidence is a quotient and is held as a reduced fraction.  The Python *)
(* code computes in IEEE doubles, whose sums can differ from the decimal   *)
(* value by a few units in the last place (0.1 + 0.1 + 0.1 is              *)
(* 0.30000000000000004); the model computes the decimal value.             *)
(* Python's None and a float NaN are the records None and NaN below.       *)
(***************************************************************************)
EXTENDS Integers, Sequences, FiniteSets, TLC

VARIABLES
    spc,        \* strategy request: "pending" before the handler ran, "done" after
    srequest,   \* the StrategyRequest body
    smarket,    \* what the market-data provider answers for the symbol
    slocals,    \* generate_recommendation's locals when it returned
    srec,       \* the dict generate_recommendation returned
    sresponse,  \* the StrategyResponse sent to the client
    strategies, \* rows of the InvestmentStrategy table
    rpc,        \* a direct call of _generate_recommendation_from_score:
    rscore,     \*   its score argument,
    rtolerance, \*   its risk_tolerance argument,
    rresult,    \*   and the dict it returned
    fpc,        \* forecast call: "pending" before it ran, "done" after a direct
                \*   call of generate_forecast, "responded" after the handler
    frequest,   \* generate_forecast's arguments
    fdata,      \* what the market-data provider answers for the symbol
    fresult,    \* the dict generate_forecast returned
    fnoise,     \* the draws np.random.normal gave during the call, in order
    fresponse,  \* what POST /api/v1/forecast/ answered
    forecasts,  \* rows of the FinancialForecast table
    apc,        \* anomaly detector: "metric" / "text" before a call of
                \*   _detect_metric_anomalies / detect_anomalies, then
                \*   "metric_done" / "text_done"
    avalues,    \* the metric series given to _detect_metric_anomalies
    atext,      \* the text given to detect_anomalies, a sequence of lines
    aresult,    \* what the call returned
    mpc,        \* mock SEC data: "calls" while generate_mock_sec_data is called
                \*   directly, "request" before POST /api/sec-analysis is
                \*   handled, "responded" after
    mtickers,   \* the tickers of the direct calls, in order
    mcalls,     \* how each direct call made so far ended
    mrng,       \* the state of the random module's shared generator
    mrequest,   \* the SECAnalysisRequest and what the SEC analyzer does with it
    mresponse,  \* what POST /api/sec-analysis answered
    upc,        \* uploads: "serving" while the endpoint takes requests
    ucount,     \* the number of upload requests handled
    ufile,      \* the file of the upload request handled last
    uresponse,  \* what POST /documents/upload answered to it
    uploads,    \* the files of the upload directory: path -> content
    documents,  \* rows of the Document table
    dpc,        \* documents service: "serving" while its endpoints take requests
    dcount,     \* the number of requests received
    dlimit,     \* the number of requests the clients send
    dpending,   \* the uploads whose file is saved and whose row is not yet stored
    drequest,   \* the request whose handler took the last step
    dresponse,  \* the answer of that step (status 0: none yet)
    analyses,   \* rows of the AnalysisResult table
    sentiments, \* rows of the SentimentAnalysis table
    dbytes,     \* Document id -> the file its upload request carried
    cpc,        \* outbound calls: the position of the handler of the current request
    ccount,     \* the number of requests received
    crequest,   \* the current request
    ccalls,     \* the outbound calls made for the current request, in order
    ppc,        \* python_backend process: "serving" while requests of several kinds arrive
    pcount,     \* the number of requests received
    pstart,     \* the state of the shared generator before the first of them
    prequest,   \* the forecasting request handled last
    presponse,  \* what POST /api/forecasting answered to it
    qpc,        \* position of the question handler
    qcount,     \* questions received so far
    qrequest,   \* the question being answered, with the settings and the outcome of the LLM call
    qresponse,  \* what ask_question returned
    vpc,        \* whether a VectorStore exists
    vcount,     \* calls made on the VectorStore so far
    vnext,      \* number of document ids generated so far
    vdocuments,  \* VectorStore.documents, the ids of the stored documents
    faiss_index,\* the vectors of the FAISS index in the order they were added, each with the document and chunk it was computed from
    faiss_documents,\* VectorStore.faiss_documents, the metadata list
    vhits,      \* what the last _search_faiss returned, each hit with the index position FAISS matched
    epc,        \* position of the handler of POST /enhanced-document-analysis
    ecount,     \* requests received so far
    erequest,   \* the upload being analysed, whether the document processor was imported and what it does with the upload
    efile,      \* read position of the uploaded file
    eresponse   \* what the endpoint answered

svars == <<spc, srequest, smarket, slocals, srec, sresponse, strategies>>

rvars == <<rpc, rscore, rtolerance, rresult>>

fvars == <<fpc, frequest, fdata, fresult, fnoise, fresponse, forecasts>>

avars == <<apc, avalues, atext, aresult>>

mvars == <<mpc, mtickers, mcalls, mrng, mrequest, mresponse>>

uvars == <<upc, ucount, ufile, uresponse, uploads, documents>>

dvars == <<dpc, dcount, dlimit, dpending, drequest, dresponse, analyses, sentiments, dbytes>>

cvars == <<cpc, ccount, crequest, ccalls>>

pvars == <<ppc, pcount, pstart, prequest, presponse>>

qvars == <<qpc, qcount, qrequest, qresponse>>

vvars == <<vpc, vcount, vnext, vdocuments, faiss_index, faiss_documents, vhits>>

evars == <<epc, ecount, erequest, efile, eresponse>>

vars == <<svars, rvars, fvars, avars, mvars, uvars, dvars, cvars, pvars, qvars, vvars, evars>>

----------------------------------------------------------------------------
(* Fixed-point and optional values *)

One == 100000

\* x thousandths: Milli(700) is 0.7
Milli(x) == x * (One \div 1000)

\* x * (n/d), exact for every product the code forms on the modelled inputs
Mul(x, n, d) == (x * n) \div d

Some(x) == [ok |-> TRUE, v |-> x]
None == [ok |-> FALSE, v |-> 0]
Num(x) == [ok |-> TRUE, v |-> x]
NaN == [ok |-> FALSE, v |-> 0]

\* Python comparisons on floats: every comparison with NaN is False
Lt(a, b) == a.ok /\ b.ok /\ a.v < b.v
Gt(a, b) == a.ok /\ b.ok /\ a.v > b.v
Le(a, b) == a.ok /\ b.ok /\ a.v <= b.v

RECURSIVE GCD(_, _)
GCD(a, b) == IF b = 0 THEN a ELSE GCD(b, a % b)

\* the quotient n/d (n >= 0, d > 0) in lowest terms
Frac(n, d) == LET g == GCD(n, d) IN [num |-> n \div g, den |-> d \div g]

\* a faulty variant of Min1: no cap
Min1NoCap(f) == f

\* min(x, 1.0)
Min1(f) == IF f.num > f.den THEN Frac(1, 1) ELSE f

----------------------------------------------------------------------------
(* StrategyService: technical indicators *)

\* _analyze_technical_indicators: the indicator dict derived from the price
\* history.  m holds the last row's derived quantities: close, the three
\* rolling means (NaN with too short a history), RSI, MACD and its signal
\* line, last volume and its 20-day mean, annualised volatility.
AnalyzeTechnicalIndicators(m) ==
    [ price_vs_ma20  |-> IF Gt(Num(m.close), m.ma20) THEN "above" ELSE "below",
      price_vs_ma50  |-> IF Gt(Num(m.close), m.ma50) THEN "above" ELSE "below",
      price_vs_ma200 |-> IF Gt(Num(m.close), m.ma200) THEN "above" ELSE "below",
      rsi            |-> m.rsi,
      macd           |-> m.macd,
      macd_signal    |-> m.macd_signal,
      volume_trend   |-> IF 2 * m.volume > 3 * m.avg_volume THEN "high" ELSE "normal",
      volatility     |-> m.volatility ]

\* ma_score * 0.3
MaTerm(ind) ==
    LET ma_score == (IF ind.price_vs_ma20 = "above" THEN Milli(330) ELSE 0)
                  + (IF ind.price_vs_ma50 = "above" THEN Milli(330) ELSE 0)
                  + (IF ind.price_vs_ma200 = "above" THEN Milli(340) ELSE 0)
    IN Mul(ma_score, 3, 10)

RsiTerm(ind) ==
    IF Le(Num(30), ind.rsi) /\ Le(ind.rsi, Num(70)) THEN Milli(200)
    ELSE IF Lt(ind.rsi, Num(30)) THEN Milli(300)
    ELSE Milli(100)

MacdTerm(ind) ==
    IF Gt(ind.macd, ind.macd_signal) THEN Milli(200) ELSE 0

VolumeTerm(ind) ==
    IF ind.volume_trend = "high" THEN Milli(150) ELSE Milli(75)

VolatilityTerm(ind) ==
    IF Lt(ind.volatility, Num(Milli(300))) THEN Milli(150)
    ELSE IF Lt(ind.volatility, Num(Milli(500))) THEN Milli(100)
    ELSE Milli(50)

\* _calculate_technical_score (factors is 5 on every path, so the 0.5
\* default is never taken)
CalculateTechnicalScore(ind) ==
    MaTerm(ind) + RsiTerm(ind) + MacdTerm(ind) + VolumeTerm(ind) + VolatilityTerm(ind)

----------------------------------------------------------------------------
(* StrategyService: fundamental metrics *)

\* the dict _analyze_fundamental_metrics falls back to when ticker.info raises
FallbackMetrics ==
    [ pe_ratio |-> None, pb_ratio |-> None, dividend_yield |-> 0,
      market_cap |-> None, beta |-> One ]

\* _analyze_fundamental_metrics.  info.raises: reading ticker.info raised.
\* A key that is absent or None in info is None here.  dividendYield is a
\* fraction in info and a percentage in the metrics (units of 1/One percent).
AnalyzeFundamentalMetrics(info) ==
    IF info.raises THEN FallbackMetrics
    ELSE [ pe_ratio       |-> info.trailingPE,
           pb_ratio       |-> info.priceToBook,
           dividend_yield |-> IF info.dividendYield.ok
                              THEN info.dividendYield.v * 100 ELSE 0,
           market_cap     |-> info.marketCap,
           beta           |-> IF info.beta.ok THEN info.beta.v ELSE One ]

\* the number of factors _calculate_fundamental_score counted
FundamentalFactors(metrics) ==
    (IF metrics.pe_ratio.ok THEN 1 ELSE 0) + (IF metrics.pb_ratio.ok THEN 1 ELSE 0)
    + 1 + 1 + (IF metrics.market_cap.ok THEN 1 ELSE 0)

PeTerm(metrics) ==
    LET pe == metrics.pe_ratio IN
    IF ~pe.ok THEN 0
    ELSE IF pe.v < 15 * One THEN Milli(300)
    ELSE IF pe.v < 25 * One THEN Milli(200)
    ELSE Milli(100)

PbTerm(metrics) ==
    LET pb == metrics.pb_ratio IN
    IF ~pb.ok THEN 0
    ELSE IF pb.v < Milli(1500) THEN Milli(200)
    ELSE IF pb.v < 3 * One THEN Milli(150)
    ELSE Milli(100)

DividendTerm(metrics) ==
    IF metrics.dividend_yield > 3 * One THEN Milli(200)
    ELSE IF metrics.dividend_yield > One THEN Milli(150)
    ELSE Milli(100)

BetaTerm(metrics) ==
    IF metrics.beta < Milli(800) THEN Milli(150)
    ELSE IF metrics.beta < Milli(1200) THEN Milli(100)
    ELSE Milli(50)

\* market capitalisation is held in millions
MarketCapTerm(metrics) ==
    LET mc == metrics.market_cap IN
    IF ~mc.ok THEN 0
    ELSE IF mc.v > 10000 THEN Milli(150)
    ELSE IF mc.v > 2000 THEN Milli(100)
    ELSE Milli(50)

\* _calculate_fundamental_score
CalculateFundamentalScore(metrics) ==
    LET score == PeTerm(metrics) + PbTerm(metrics) + DividendTerm(metrics)
                 + BetaTerm(metrics) + MarketCapTerm(metrics)
    IN IF FundamentalFactors(metrics) > 0 THEN score ELSE Milli(500)

----------------------------------------------------------------------------
(* StrategyService: from the score to the recommendation *)

\* a faulty variant of BuyThreshold: the thresholds of "low" and "high" exchanged
BuyThresholdExchanged(risk_tolerance) ==
    IF risk_tolerance = "low" THEN Milli(600)
    ELSE IF risk_tolerance = "high" THEN Milli(700)
    ELSE Milli(650)

BuyThreshold(risk_tolerance) ==
    IF risk_tolerance = "low" THEN Milli(700)
    ELSE IF risk_tolerance = "high" THEN Milli(600)
    ELSE Milli(650)

SellThreshold(risk_tolerance) ==
    IF risk_tolerance = "low" THEN Milli(300)
    ELSE IF risk_tolerance = "high" THEN Milli(400)
    ELSE Milli(350)

\* a faulty variant of GenerateRecommendationFromScore: a score on the buy threshold
\* is not yet a buy
GenerateRecommendationFromScoreStrict(score, risk_tolerance) ==
    LET buy_threshold == IF risk_tolerance = "low" THEN Milli(700)
                         ELSE IF risk_tolerance = "high" THEN Milli(600)
                         ELSE Milli(650)
        sell_threshold == IF risk_tolerance = "low" THEN Milli(300)
                          ELSE IF risk_tolerance = "high" THEN Milli(400)
                          ELSE Milli(350)
    IN IF score > buy_threshold
       THEN [ action |-> "buy",
              confidence |-> Min1(Frac(score - buy_threshold, One - buy_threshold)) ]
       ELSE IF score <= sell_threshold
       THEN [ action |-> "sell",
              confidence |-> Min1(Frac(sell_threshold - score, sell_threshold)) ]
       ELSE [ action |-> "hold", confidence |-> Frac(1, 2) ]

\* _generate_recommendation_from_score
GenerateRecommendationFromScore(score, risk_tolerance) ==
    LET buy_threshold == BuyThreshold(risk_tolerance)
        sell_threshold == SellThreshold(risk_tolerance)
    IN IF score >= buy_threshold
       THEN [ action |-> "buy",
              confidence |-> Min1(Frac(score - buy_threshold, One - buy_threshold)) ]
       ELSE IF score <= sell_threshold
       THEN [ action |-> "sell",
              confidence |-> Min1(Frac(sell_threshold - score, sell_threshold)) ]
       ELSE [ action |-> "hold", confidence |-> Frac(1, 2) ]

\* _calculate_target_price; current_price in whole units, the result in 1/One
CalculateTargetPrice(current_price, action, score) ==
    IF action = "buy"
    THEN LET target_percentage == Milli(150) + Mul(score, 1, 10)
         IN current_price * (One + target_percentage)
    ELSE IF action = "sell"
    THEN LET target_percentage == Milli(150) + Mul(One - score, 1, 10)
         IN current_price * (One - target_percentage)
    ELSE current_price * One

\* _calculate_stop_loss
CalculateStopLoss(current_price, risk_tolerance) ==
    LET stop_loss_percentage ==
            IF risk_tolerance = "low" THEN Milli(50)
            ELSE IF risk_tolerance = "high" THEN Milli(150)
            ELSE Milli(100)
    IN current_price * (One - stop_loss_percentage)

\* _determine_risk_level
DetermineRiskLevel(score, risk_tolerance) ==
    IF risk_tolerance = "low" \/ score < Milli(300) THEN "low"
    ELSE IF risk_tolerance = "high" \/ score > Milli(700) THEN "high"
    ELSE "medium"

\* f"{overall_score:.2f}": the score to the nearest hundredth, as text
Format2f(score) ==
    LET h == One \div 100
        q == score \div h
        r == score % h
        n == IF 2 * r > h \/ (2 * r = h /\ q % 2 = 1) THEN q + 1 ELSE q
    IN ToString(n \div 100) \o "." \o ToString((n % 100) \div 10) \o ToString(n % 10)

\* _generate_reasoning: the canned sentences, in order (joined by " " in the
\* code).  An empty indicator or metric dict (analysis not requested) is None.
GenerateReasoning(action, technical_indicators, fundamental_metrics, overall_score) ==
    LET head == IF action = "buy" THEN <<"Positive investment opportunity identified.">>
                ELSE IF action = "sell"
                THEN <<"Consider reducing position or taking profits.">>
                ELSE <<"Neutral position recommended.">>
        ti == technical_indicators.v
        fm == fundamental_metrics.v
        ma == IF ~technical_indicators.ok THEN <<>>
              ELSE IF ti.price_vs_ma20 = "above" /\ ti.price_vs_ma50 = "above"
              THEN <<"Price is above 20-day MA and above 50-day MA.">>
              ELSE IF ti.price_vs_ma20 = "above" THEN <<"Price is above 20-day MA.">>
              ELSE IF ti.price_vs_ma50 = "above" THEN <<"Price is above 50-day MA.">>
              ELSE <<>>
        rsi == IF ~technical_indicators.ok THEN <<>>
               ELSE IF Lt(ti.rsi, Num(30)) THEN <<"RSI indicates oversold conditions.">>
               ELSE IF Gt(ti.rsi, Num(70)) THEN <<"RSI indicates overbought conditions.">>
               ELSE <<>>
        pe == IF ~fundamental_metrics.ok THEN <<>>
              ELSE IF fm.pe_ratio.ok /\ fm.pe_ratio.v # 0 /\ fm.pe_ratio.v < 15 * One
              THEN <<"P/E ratio suggests undervaluation.">>
              ELSE IF fm.pe_ratio.ok /\ fm.pe_ratio.v # 0 /\ fm.pe_ratio.v > 25 * One
              THEN <<"P/E ratio suggests overvaluation.">>
              ELSE <<>>
        dy == IF fundamental_metrics.ok /\ fm.dividend_yield > 3 * One
              THEN <<"Attractive dividend yield.">> ELSE <<>>
    IN head \o ma \o rsi \o pe \o dy
       \o <<"Overall confidence score: " \o Format2f(overall_score)>>

\* _get_factors_considered
GetFactorsConsidered(include_technical, include_fundamental) ==
    (IF include_technical
     THEN <<"Moving Averages", "RSI (Relative Strength Index)", "MACD",
            "Volume Analysis", "Volatility">>
     ELSE <<>>)
    \o (IF include_fundamental
        THEN <<"P/E Ratio", "P/B Ratio", "Dividend Yield", "Beta",
               "Market Capitalization">>
        ELSE <<>>)

\* _default_recommendation; reason is the text after "Insufficient data for
\* {symbol}. "
DefaultRecommendation(symbol, reason) ==
    [ outcome |-> "returned",
      action |-> "hold",
      confidence |-> Frac(3, 10),
      reasoning |-> <<"Insufficient data for " \o symbol \o ".">> \o reason,
      risk_level |-> "medium",
      target_price |-> None,
      stop_loss |-> None,
      factors |-> None,
      factors_considered |-> <<>> ]

\* a faulty variant of CombineScores: the two weights exchanged
CombineScoresSwapped(technical_score, fundamental_score, include_technical, include_fundamental) ==
    IF include_technical /\ include_fundamental
    THEN Mul(technical_score, 4, 10) + Mul(fundamental_score, 6, 10)
    ELSE IF include_technical THEN technical_score
    ELSE IF include_fundamental THEN fundamental_score
    ELSE 0

\* generate_recommendation, "Combine scores"
CombineScores(technical_score, fundamental_score, include_technical, include_fundamental) ==
    IF include_technical /\ include_fundamental
    THEN Mul(technical_score, 6, 10) + Mul(fundamental_score, 4, 10)
    ELSE IF include_technical THEN technical_score
    ELSE IF include_fundamental THEN fundamental_score
    ELSE 0

\* what Python leaves of a call that raised
Raised(msg) == [ outcome |-> "raised", error |-> msg ]

\* generate_recommendation, lines 33-88: the body of the try once the
\* history is there.  The result pairs the returned dict with the locals
\* technical_score and fundamental_score.
Analyse(request, market) ==
    LET technical_indicators ==
            IF request.include_technical_analysis
            THEN Some(AnalyzeTechnicalIndicators(market.last)) ELSE None
        technical_score ==
            IF request.include_technical_analysis
            THEN CalculateTechnicalScore(technical_indicators.v) ELSE 0
        fundamental_metrics ==
            IF request.include_fundamental_analysis
            THEN Some(AnalyzeFundamentalMetrics(market.info)) ELSE None
        fundamental_score ==
            IF request.include_fundamental_analysis
            THEN CalculateFundamentalScore(fundamental_metrics.v) ELSE 0
        overall_score ==
            CombineScores(technical_score, fundamental_score,
                          request.include_technical_analysis,
                          request.include_fundamental_analysis)
        recommendation ==
            GenerateRecommendationFromScore(overall_score, request.risk_tolerance)
        current_price == market.last.close
    IN [ ret |->
           [ outcome |-> "returned",
             action |-> recommendation.action,
             confidence |-> recommendation.confidence,
             reasoning |-> GenerateReasoning(recommendation.action, technical_indicators,
                                             fundamental_metrics, overall_score),
             risk_level |-> DetermineRiskLevel(overall_score, request.risk_tolerance),
             target_price |-> Some(CalculateTargetPrice(current_price,
                                        recommendation.action, overall_score)),
             stop_loss |-> Some(CalculateStopLoss(current_price, request.risk_tolerance)),
             factors |-> Some([ technical_indicators |-> technical_indicators,
                                fundamental_metrics |-> fundamental_metrics,
                                overall_score |-> overall_score ]),
             factors_considered |->
                 GetFactorsConsidered(request.include_technical_analysis,
                                      request.include_fundamental_analysis) ],
         locals |-> [ technical_score |-> technical_score,
                      fundamental_score |-> fundamental_score ] ]

NoLocals == [ technical_score |-> 0, fundamental_score |-> 0 ]

\* a faulty variant of OnException: the exception is raised again
OnExceptionReraise(symbol, msg) == Raised(msg)

\* the except clause of generate_recommendation (lines 90-91)
OnException(symbol, msg) ==
    DefaultRecommendation(symbol, <<"Error: " \o msg>>)

\* generate_recommendation.  market.fault says what the data source did:
\* "history_raises" (yf.Ticker/history raised market.msg), "empty" (an empty
\* frame came back), "step_raises" (a later step inside the try raised
\* market.msg, e.g. on a malformed frame or a non-numeric info value),
\* "none" (the analysis ran through).
GenerateRecommendation(request, market) ==
    IF market.fault = "history_raises" THEN
        [ ret |-> OnException(request.symbol, market.msg), locals |-> NoLocals ]
    ELSE IF market.fault = "empty" THEN
        [ ret |-> DefaultRecommendation(request.symbol, <<"No data available">>),
          locals |-> NoLocals ]
    ELSE IF market.fault = "step_raises" THEN
        [ ret |-> OnException(request.symbol, market.msg), locals |-> NoLocals ]
    ELSE Analyse(request, market)

\* str.upper() on the symbols of the model
Upper(symbol) ==
    CASE symbol = "aapl" -> "AAPL"
      [] symbol = "msft" -> "MSFT"
      [] symbol = "Msft" -> "MSFT"
      [] symbol = "techco" -> "TECHCO"
      [] symbol = "bankx" -> "BANKX"
      [] symbol = "zzz" -> "ZZZ"
      [] OTHER -> symbol

NoResponse == [ status |-> 0 ]

\* POST /api/v1/strategy/recommend: get_investment_recommendation.  An
\* exception leaving the service would leave the handler too (HTTP 500, no row).
GetInvestmentRecommendation ==
    /\ spc = "pending"
    /\ LET out == GenerateRecommendation(srequest, smarket)
           recommendation == out.ret
       IN /\ srec' = recommendation
          /\ slocals' = out.locals
          /\ IF recommendation.outcome = "raised"
             THEN /\ sresponse' = [ status |-> 500 ]
                  /\ UNCHANGED strategies
             ELSE /\ strategies' = Append(strategies,
                        [ symbol |-> Upper(srequest.symbol),
                          recommendation |-> recommendation.action,
                          confidence_score |-> recommendation.confidence,
                          reasoning |-> recommendation.reasoning,
                          risk_level |-> recommendation.risk_level,
                          target_price |-> recommendation.target_price,
                          stop_loss |-> recommendation.stop_loss,
                          strategy_factors |-> recommendation.factors ])
                  /\ sresponse' =
                        [ status |-> 200,
                          symbol |-> Upper(srequest.symbol),
                          recommendation |-> recommendation.action,
                          confidence_score |-> recommendation.confidence,
                          reasoning |-> recommendation.reasoning,
                          risk_level |-> recommendation.risk_level,
                          target_price |-> recommendation.target_price,
                          stop_loss |-> recommendation.stop_loss,
                          time_horizon |-> srequest.time_horizon,
                          factors_considered |-> recommendation.factors_considered ]
    /\ spc' = "done"
    /\ UNCHANGED <<srequest, smarket>>
    /\ UNCHANGED <<rvars, fvars, avars, mvars, uvars, dvars, cvars, pvars, qvars, vvars, evars>>

----------------------------------------------------------------------------
(* The strategy requests and market answers of the model.  Every set holds *)
(* one value for each branch of the scoring tables, on the boundary where  *)
(* a boundary exists.                                                      *)

RiskTolerances == {"low", "medium", "high", "aggressive"}

Requests ==
    [ symbol : {"aapl"},
      risk_tolerance : RiskTolerances,
      time_horizon : {"1y"},
      include_technical_analysis : BOOLEAN,
      include_fundamental_analysis : BOOLEAN ]

LastRows ==
    [ close : {100},
      ma20 : {Num(99), Num(100)},
      ma50 : {Num(99), Num(100)},
      ma200 : {Num(99), NaN},
      rsi : {Num(29), Num(30), Num(71)},
      macd : {Num(0), Num(1)},
      macd_signal : {Num(0)},
      volume : {150, 151},
      avg_volume : {100},
      volatility : {Num(Milli(299)), Num(Milli(300)), Num(Milli(500))} ]

DefaultLastRow ==
    [ close |-> 100, ma20 |-> NaN, ma50 |-> NaN, ma200 |-> NaN, rsi |-> NaN,
      macd |-> Num(0), macd_signal |-> Num(0), volume |-> 150, avg_volume |-> 100,
      volatility |-> NaN ]

Infos ==
    [ raises : {FALSE},
      trailingPE : {None, Some(14 * One), Some(15 * One), Some(25 * One)},
      priceToBook : {None, Some(Milli(1499)), Some(Milli(1500)), Some(3 * One)},
      dividendYield : {None, Some(Milli(30)), Some(Milli(31))},
      marketCap : {None, Some(2000), Some(10000), Some(10001)},
      beta : {None, Some(Milli(799)), Some(Milli(1200))} ]

RaisingInfo ==
    [ raises |-> TRUE, trailingPE |-> None, priceToBook |-> None,
      dividendYield |-> None, marketCap |-> None, beta |-> None ]

ErrorMessages == {"No timezone found, symbol may be delisted", "'Close'"}

\* a request for both analyses is answered from these smaller sets, which
\* keep the lowest and the highest value of every term
BothLastRows ==
    { r \in LastRows : r.ma50 = Num(99) /\ r.volume = 151
                       /\ r.volatility # Num(Milli(300)) }

BothInfos ==
    { i \in Infos : /\ i.trailingPE # Some(15 * One)
                    /\ i.priceToBook \in {None, Some(Milli(1499))}
                    /\ i.dividendYield # Some(Milli(30))
                    /\ i.marketCap \in {None, Some(10001)}
                    /\ i.beta # Some(Milli(1200)) }

\* the market answers that matter to a request: indicators are read only
\* for a technical analysis, ticker.info only for a fundamental one
MarketsFor(request) ==
    LET both == request.include_technical_analysis
                /\ request.include_fundamental_analysis
    IN [ fault : {"none"}, msg : {""},
         last : IF both THEN BothLastRows
                ELSE IF request.include_technical_analysis THEN LastRows
                ELSE {DefaultLastRow},
         info : IF both THEN BothInfos \cup {RaisingInfo}
                ELSE IF request.include_fundamental_analysis
                THEN Infos \cup {RaisingInfo} ELSE {RaisingInfo} ]
       \cup [ fault : {"empty"}, msg : {""},
              last : {DefaultLastRow}, info : {RaisingInfo} ]
       \cup [ fault : {"history_raises", "step_raises"}, msg : ErrorMessages,
              last : {DefaultLastRow}, info : {RaisingInfo} ]

----------------------------------------------------------------------------
(* ForecastService.  Prices and amounts are in units of 1/One; a factor    *)
(* (1 + drift) is in units of 1/One and is a whole number of tenths in the *)
(* model, for which Times is exact.                                        *)

\* x * y, for a factor y that is a whole number of tenths
Times(x, y) == (x * (y \div (One \div 10))) \div 10

\* round(x, digits) with u = 10^-digits: to the nearest multiple of u, a tie
\* to the even one
RoundTo(x, u) ==
    LET a == IF x < 0 THEN 0 - x ELSE x
        q == a \div u
        r == a % u
        n == IF 2 * r > u \/ (2 * r = u /\ q % 2 = 1) THEN q + 1 ELSE q
    IN IF x < 0 THEN 0 - n * u ELSE n * u

\* round() of a float that may be NaN
Round(x, u) == IF x.ok THEN Num(RoundTo(x.v, u)) ELSE NaN

Cent == One \div 100

\* the rows of an n-row history (rows 1..n, none of them NaN) on which the
\* derived columns are not NaN: Returns = pct_change(), MA5 and MA20 =
\* rolling(5 / 20).mean() of Close, Volatility = rolling(20).std() of Returns
ReturnsValid(i) == i >= 2
MA5Valid(i) == i >= 5
MA20Valid(i) == i >= 20
VolatilityValid(i) == i >= 20 /\ \A j \in (i - 19)..i : ReturnsValid(j)

\* data.dropna(): the rows that remain, in order
DropNa(n) ==
    SelectSeq([i \in 1..n |-> i],
              LAMBDA i : ReturnsValid(i) /\ MA5Valid(i) /\ MA20Valid(i)
                         /\ VolatilityValid(i))

\* _empty_forecast_result
EmptyForecastResult(model_type) ==
    [ predicted_value |-> Num(0),
      predictions |-> <<>>,
      confidence_interval |-> None,
      model_used |-> model_type,
      historical_data |-> "none",
      accuracy_metrics |-> {[ key |-> "error", type |-> "str",
                              text |-> "No data available" ]} ]

\* the dict generate_forecast returns for an empty frame (lines 30-38)
NoDataResult(model_type) ==
    [ predicted_value |-> Num(0),
      predictions |-> <<>>,
      confidence_interval |-> None,
      model_used |-> model_type,
      historical_data |-> "none",
      accuracy_metrics |-> {} ]

\* a faulty variant of ForecastErrorResult: the message is dropped
ForecastErrorResultNoMessage(model_type, msg) ==
    [ predicted_value |-> Num(0),
      predictions |-> <<>>,
      confidence_interval |-> None,
      model_used |-> model_type,
      historical_data |-> "none",
      accuracy_metrics |-> {} ]

\* the dict of generate_forecast's except clause (lines 50-58)
ForecastErrorResult(model_type, msg) ==
    [ predicted_value |-> Num(0),
      predictions |-> <<>>,
      confidence_interval |-> None,
      model_used |-> model_type,
      historical_data |-> "none",
      accuracy_metrics |-> {[ key |-> "error", type |-> "str", text |-> msg ]} ]

\* a faulty variant of Projected: every step starts from the last close
ProjectedFromStart(start, noise, k) ==
    IF k = 0 THEN start ELSE Times(start, One + noise[k])

\* the projected price after k steps of the walk from start; noise[i] is the
\* i-th draw of np.random.normal
RECURSIVE Projected(_, _, _)
Projected(start, noise, k) ==
    IF k = 0 THEN start
    ELSE Times(Projected(start, noise, k - 1), One + noise[k])

\* a faulty variant of TooFewRows: only an empty frame is too short, as in
\* _forecast_earnings
TooFewRowsOnlyEmpty(rows) == Len(rows) = 0

\* _forecast_stock_price's check after dropna(): len(data) < 10
TooFewRows(rows) == Len(rows) < 10

\* a faulty variant of SplitIdx: rounds 0.8 * n up
SplitIdxCeil(n) == (n * 8 + 9) \div 10

\* split_idx = int(len(data) * 0.8); the float product truncates to the same
\* integer as 8n div 10 for every n below 100000
SplitIdx(n) == (n * 8) \div 10

\* _forecast_stock_price.  data.bars rows came back, the last close is
\* data.close.
ForecastStockPrice(data, model_type, noise) ==
    LET rows == DropNa(data.bars)
        split_idx == SplitIdx(Len(rows))
        price(k) == Projected(data.close * One, noise, k)
        predictions ==
            [ k \in 1..5 |->
                [ day |-> k,
                  predicted_price |-> Num(RoundTo(price(k), Cent)),
                  confidence_lower |-> Num(RoundTo(Mul(price(k), 95, 100), Cent)),
                  confidence_upper |-> Num(RoundTo(Mul(price(k), 105, 100), Cent)) ] ]
    IN IF data.bars = 0 THEN EmptyForecastResult(model_type)
       ELSE IF TooFewRows(rows) THEN EmptyForecastResult(model_type)
       ELSE [ predicted_value |-> predictions[1].predicted_price,
              predictions |-> predictions,
              confidence_interval |->
                  Some([ lower |-> [ k \in 1..5 |-> predictions[k].confidence_lower ],
                         upper |-> [ k \in 1..5 |-> predictions[k].confidence_upper ] ]),
              model_used |-> model_type,
              historical_data |-> "price",
              accuracy_metrics |->
                  { [ key |-> k, type |-> "float", text |-> "" ]
                      : k \in {"rmse", "mae", "r2_score"} },
              train_rows |-> SubSeq(rows, 1, split_idx),
              test_rows |-> SubSeq(rows, split_idx + 1, Len(rows)) ]

\* the quarterly walk of _forecast_earnings and _forecast_revenue: the value
\* after k quarters, NaN once the growth rate is
RECURSIVE Quarterly(_, _, _, _)
Quarterly(start, growth, noise, k) ==
    IF ~growth.ok THEN NaN
    ELSE IF k = 0 THEN Num(start)
    ELSE Num(Times(Quarterly(start, growth, noise, k - 1).v,
                   One + growth.v + noise[k]))

\* the four entries of an earnings or revenue forecast
QuarterlyPredictions(start, growth, noise) ==
    [ k \in 1..4 |->
        [ quarter |-> k,
          predicted |-> Round(Quarterly(start, growth, noise, k), Cent),
          growth_rate |-> IF growth.ok
                          THEN Num(RoundTo((growth.v + noise[k]) * 100, One \div 10))
                          ELSE NaN ] ]

\* _forecast_earnings.  data.avg_close is Close.mean(), data.volume_trend is
\* Volume.pct_change().mean() (NaN for a single row).
ForecastEarnings(data, model_type, noise) ==
    LET estimated_earnings == Mul(data.avg_close * One, 5, 100)
        earnings_growth == IF data.volume_trend.ok
                           THEN Num(Mul(data.volume_trend.v, 1, 10)) ELSE NaN
        predictions == QuarterlyPredictions(estimated_earnings, earnings_growth, noise)
    IN IF data.bars = 0 THEN EmptyForecastResult(model_type)
       ELSE [ predicted_value |-> predictions[1].predicted,
              predictions |-> predictions,
              confidence_interval |-> None,
              model_used |-> model_type,
              historical_data |-> "earnings",
              accuracy_metrics |->
                  { [ key |-> "confidence", type |-> "float", text |-> "" ],
                    [ key |-> "model_type", type |-> "str",
                      text |-> "simplified_earnings_estimation" ] } ]

\* _forecast_revenue.  data.avg_volume is Volume.mean(), data.price_trend is
\* Close.pct_change().mean() (NaN for a single row).
ForecastRevenue(data, model_type, noise) ==
    LET estimated_revenue == data.avg_close * data.avg_volume * (One \div 100)
        revenue_growth == IF data.price_trend.ok
                          THEN Num(Mul(data.price_trend.v, 5, 10)) ELSE NaN
        predictions == QuarterlyPredictions(estimated_revenue, revenue_growth, noise)
    IN IF data.bars = 0 THEN EmptyForecastResult(model_type)
       ELSE [ predicted_value |-> predictions[1].predicted,
              predictions |-> predictions,
              confidence_interval |-> None,
              model_used |-> model_type,
              historical_data |-> "revenue",
              accuracy_metrics |->
                  { [ key |-> "confidence", type |-> "float", text |-> "" ],
                    [ key |-> "model_type", type |-> "str",
                      text |-> "simplified_revenue_estimation" ] } ]

\* _get_historical_data: the number of rows of the frame it returns; a
\* raising data source gives the empty frame
GetHistoricalData(data) == IF data.fault = "fetch_raises" THEN 0 ELSE data.bars

\* a faulty variant of GenerateForecast: a forecast_type that is none of the
\* three known ones gets the empty result
GenerateForecastKnownOnly(request, data, noise) ==
    IF GetHistoricalData(data) = 0 THEN NoDataResult(request.model_type)
    ELSE IF data.fault = "step_raises"
    THEN ForecastErrorResult(request.model_type, data.msg)
    ELSE IF request.forecast_type = "stock_price"
    THEN ForecastStockPrice(data, request.model_type, noise)
    ELSE IF request.forecast_type = "earnings"
    THEN ForecastEarnings(data, request.model_type, noise)
    ELSE IF request.forecast_type = "revenue"
    THEN ForecastRevenue(data, request.model_type, noise)
    ELSE EmptyForecastResult(request.model_type)

\* generate_forecast.  data.fault: "fetch_raises" (the data source raised),
\* "step_raises" (the forecast routine raised data.msg), "none".
GenerateForecast(request, data, noise) ==
    IF GetHistoricalData(data) = 0 THEN NoDataResult(request.model_type)
    ELSE IF data.fault = "step_raises"
    THEN ForecastErrorResult(request.model_type, data.msg)
    ELSE IF request.forecast_type = "stock_price"
    THEN ForecastStockPrice(data, request.model_type, noise)
    ELSE IF request.forecast_type = "earnings"
    THEN ForecastEarnings(data, request.model_type, noise)
    ELSE IF request.forecast_type = "revenue"
    THEN ForecastRevenue(data, request.model_type, noise)
    ELSE ForecastStockPrice(data, request.model_type, noise)

\* the draws of np.random.normal the model considers
Drifts == {0 - One \div 10, 0, One \div 10}

NoForecastResponse == [ status |-> 0 ]

\* a call of ForecastService.generate_forecast
CallGenerateForecast ==
    /\ fpc = "pending"
    /\ \E noise \in [1..5 -> Drifts] :
          /\ fresult' = GenerateForecast(frequest, fdata, noise)
          /\ fnoise' = noise
    /\ fpc' = "done"
    /\ UNCHANGED <<frequest, fdata, fresponse, forecasts>>
    /\ UNCHANGED <<svars, rvars, avars, mvars, uvars, dvars, cvars, pvars, qvars, vvars, evars>>

\* pydantic's validation of one accuracy_metrics value against float: a
\* float passes, a str passes only when it spells a number, which none of
\* the texts the service puts there does
ValidatesAsFloat(entry) == entry.type = "float"

\* ForecastResponse(...): the payload validates against the schema
\* (accuracy_metrics: Dict[str, float])
ValidForecastResponse(forecast_data) ==
    \A entry \in forecast_data.accuracy_metrics : ValidatesAsFloat(entry)

\* the FinancialForecast row create_forecast stores
ForecastRow(request, forecast_data) ==
    [ symbol |-> request.symbol,
      forecast_type |-> request.forecast_type,
      predicted_value |-> forecast_data.predicted_value,
      confidence_interval |-> forecast_data.confidence_interval,
      model_used |-> forecast_data.model_used,
      historical_data |-> forecast_data.historical_data ]

\* what the client receives: the ForecastResponse, or the answer of
\* global_exception_handler when building it raised
ForecastAnswer(request, forecast_data) ==
    IF ValidForecastResponse(forecast_data)
    THEN [ status |-> 200,
           symbol |-> request.symbol,
           forecast_type |-> request.forecast_type,
           predictions |-> forecast_data.predictions,
           confidence_interval |-> forecast_data.confidence_interval,
           model_used |-> forecast_data.model_used,
           accuracy_metrics |-> forecast_data.accuracy_metrics ]
    ELSE [ status |-> 500, detail |-> "Internal server error" ]

\* POST /api/v1/forecast/ (create_forecast): the service call, the row
\* committed, then the response built
CreateForecast ==
    /\ fpc = "pending"
    /\ \E noise \in [1..5 -> Drifts] :
          LET forecast_data == GenerateForecast(frequest, fdata, noise)
          IN /\ fresult' = forecast_data
             /\ fnoise' = noise
             /\ forecasts' = Append(forecasts, ForecastRow(frequest, forecast_data))
             /\ fresponse' = ForecastAnswer(frequest, forecast_data)
    /\ fpc' = "responded"
    /\ UNCHANGED <<frequest, fdata>>
    /\ UNCHANGED <<svars, rvars, avars, mvars, uvars, dvars, cvars, pvars, qvars, vvars, evars>>

----------------------------------------------------------------------------
(* AnomalyDetector.  Metric values are whole numbers.  A z-score is a       *)
(* quotient of a difference by a square root; the model holds its square    *)
(* as a pair of integers and compares squares, where the code compares      *)
(* doubles.  A risk score or confidence is a reduced fraction.              *)

RECURSIVE SumSeq(_)
SumSeq(values) ==
    IF values = <<>> THEN 0 ELSE values[1] + SumSeq(Tail(values))

Abs(x) == IF x < 0 THEN 0 - x ELSE x

\* with n = len(values), S their sum and Q the sum of their squares:
\* mean = S/n and stdev(values)^2 = (nQ - S^2) / (n (n - 1)), so that
\* z_score^2 = (n v - S)^2 (n - 1) / (n (nQ - S^2))
SumSquares(values) == SumSeq([ i \in 1..Len(values) |-> values[i] * values[i] ])

\* n (n - 1) stdev(values)^2
ScaledVariance(values) ==
    Len(values) * SumSquares(values) - SumSeq(values) * SumSeq(values)

\* z_score^2 of value within values, numerator and denominator
ZScoreSquared(values, value) ==
    LET d == Len(values) * value - SumSeq(values)
    IN [ num |-> d * d * (Len(values) - 1),
         den |-> Len(values) * ScaledVariance(values) ]

\* a faulty variant of ZScoreAbove: the z-score without abs()
ZScoreAboveSigned(values, value, t) ==
    LET z2 == ZScoreSquared(values, value)
    IN /\ Len(values) * value > SumSeq(values)
       /\ z2.num > t * t * z2.den

\* z_score > t for a whole number t
ZScoreAbove(values, value, t) ==
    LET z2 == ZScoreSquared(values, value)
    IN z2.num > t * t * z2.den

\* self.z_score_threshold
ZScoreThreshold == 2

\* the first loop of _detect_metric_anomalies: the statistical outliers
StatisticalOutliers(metric_name, values) ==
    LET flagged(i) == /\ ScaledVariance(values) > 0
                      /\ ZScoreAbove(values, values[i], ZScoreThreshold)
        entry(i) == [ metric |-> metric_name,
                      value |-> values[i],
                      z_score_squared |-> ZScoreSquared(values, values[i]),
                      anomaly_type |-> "statistical_outlier",
                      severity |-> IF ZScoreAbove(values, values[i], 3)
                                   THEN "high" ELSE "medium" ]
        hits == SelectSeq([ i \in 1..Len(values) |-> i ], flagged)
    IN [ k \in 1..Len(hits) |-> entry(hits[k]) ]

\* the second loop: the changes of more than 20% (percentage_change_threshold)
SignificantChanges(metric_name, values) ==
    LET change(i) == Abs(values[i] - values[i - 1])
        flagged(i) == /\ i >= 2
                      /\ values[i - 1] # 0
                      /\ 5 * change(i) > Abs(values[i - 1])
        entry(i) == [ metric |-> metric_name,
                      value |-> values[i],
                      previous_value |-> values[i - 1],
                      anomaly_type |-> "significant_change",
                      severity |-> IF 2 * change(i) > Abs(values[i - 1])
                                   THEN "high" ELSE "medium" ]
        hits == SelectSeq([ i \in 1..Len(values) |-> i ], flagged)
    IN [ k \in 1..Len(hits) |-> entry(hits[k]) ]

\* _detect_metric_anomalies
DetectMetricAnomalies(metric_name, values) ==
    IF Len(values) < 2 THEN <<>>
    ELSE StatisticalOutliers(metric_name, values)
         \o SignificantChanges(metric_name, values)

\* _extract_number on a line.  line.match tells what the first match of the
\* number pattern is: "none" (no match), "commas" (a match without a digit,
\* on which float() raises ValueError) or "number" with the value line.number.
ExtractNumber(line) ==
    IF line.match = "number" THEN Some(line.number) ELSE None

\* the metrics dict of _extract_financial_metrics, in its order, with the
\* substrings that send a line's number to each list
MetricNames ==
    << "revenue", "profit", "earnings", "expenses", "cash_flow", "debt",
       "assets", "liabilities" >>

Triggers(metric_name) ==
    CASE metric_name = "revenue" -> {"revenue", "sales"}
      [] metric_name = "profit" -> {"profit", "earnings", "net income"}
      [] metric_name = "expenses" -> {"expense", "cost"}
      [] metric_name = "cash_flow" -> {"cash flow"}
      [] metric_name = "debt" -> {"debt", "liability"}
      [] metric_name = "assets" -> {"asset"}
      [] OTHER -> {}

\* _extract_financial_metrics: the list of one metric.  line.words is the set
\* of trigger substrings the lower-cased line contains; a value of 0.0 is
\* dropped by "if value".
ExtractFinancialMetric(text, metric_name) ==
    LET taken(i) == /\ text[i].words \cap Triggers(metric_name) # {}
                    /\ ExtractNumber(text[i]).ok
                    /\ ExtractNumber(text[i]).v # 0
        hits == SelectSeq([ i \in 1..Len(text) |-> i ], taken)
    IN [ k \in 1..Len(hits) |-> ExtractNumber(text[hits[k]]).v ]

ExtractFinancialMetrics(text) ==
    [ m \in 1..Len(MetricNames) |-> ExtractFinancialMetric(text, MetricNames[m]) ]

\* severity_weights, in tenths
SeverityWeight(severity) ==
    CASE severity = "low" -> 3
      [] severity = "medium" -> 6
      [] severity = "high" -> 10
      [] OTHER -> 6

\* a faulty variant of CalculateRiskScore: normalised by the number of
\* metrics, not twice the number
CalculateRiskScoreByMetrics(anomalies, total_metrics) ==
    IF anomalies = <<>> THEN Frac(0, 1)
    ELSE Min1(Frac(SumSeq([ i \in 1..Len(anomalies) |->
                              SeverityWeight(anomalies[i].severity) ]),
                   10 * total_metrics))

\* _calculate_risk_score
CalculateRiskScore(anomalies, total_metrics) ==
    IF anomalies = <<>> THEN Frac(0, 1)
    ELSE Min1(Frac(SumSeq([ i \in 1..Len(anomalies) |->
                              SeverityWeight(anomalies[i].severity) ]),
                   10 * total_metrics * 2))

\* _generate_recommendations
GenerateRecommendations(anomalies, risk_score) ==
    LET count(type) == Cardinality({ i \in 1..Len(anomalies) :
                                       anomalies[i].anomaly_type = type })
        affected == { anomalies[i].metric : i \in 1..Len(anomalies) }
    IN (IF 10 * risk_score.num > 7 * risk_score.den
        THEN << "High risk detected - Consider immediate review of financial statements",
                "Recommend consulting with financial advisors" >>
        ELSE IF 10 * risk_score.num > 4 * risk_score.den
        THEN << "Medium risk detected - Monitor financial metrics closely",
                "Consider implementing additional controls" >>
        ELSE << "Low risk profile - Continue regular monitoring" >>)
       \o (IF count("statistical_outlier") > 0
           THEN << "Investigate " \o ToString(count("statistical_outlier"))
                   \o " statistical outliers in financial data" >>
           ELSE <<>>)
       \o (IF count("significant_change") > 0
           THEN << "Review " \o ToString(count("significant_change"))
                   \o " significant changes in financial metrics" >>
           ELSE <<>>)
       \o (IF "revenue" \in affected
           THEN << "Review revenue recognition policies and sales processes" >>
           ELSE <<>>)
       \o (IF "expenses" \in affected
           THEN << "Analyze expense patterns and cost control measures" >>
           ELSE <<>>)
       \o (IF "cash_flow" \in affected
           THEN << "Monitor cash flow management and liquidity" >>
           ELSE <<>>)

\* the loop of detect_anomalies over the first m metrics: the anomalies
\* found so far and the metrics that have some
RECURSIVE AnomaliesOf(_, _)
AnomaliesOf(metrics, m) ==
    IF m = 0 THEN [ anomalies |-> <<>>, affected_metrics |-> <<>> ]
    ELSE LET before == AnomaliesOf(metrics, m - 1)
             found == IF Len(metrics[m]) > 1
                      THEN DetectMetricAnomalies(MetricNames[m], metrics[m])
                      ELSE <<>>
         IN [ anomalies |-> before.anomalies \o found,
              affected_metrics |->
                  IF found # <<>>
                  THEN Append(before.affected_metrics, MetricNames[m])
                  ELSE before.affected_metrics ]

\* detect_anomalies; the empty text is the empty sequence of lines
DetectAnomalies(text) ==
    IF text = <<>>
    THEN [ anomalies |-> <<>>,
           risk_score |-> Frac(0, 1),
           recommendations |-> << "No content available for analysis" >>,
           affected_metrics |-> <<>>,
           confidence |-> Frac(0, 1) ]
    ELSE LET metrics == ExtractFinancialMetrics(text)
             found == AnomaliesOf(metrics, Len(metrics))
             risk_score == CalculateRiskScore(found.anomalies, Len(metrics))
         IN [ anomalies |-> found.anomalies,
              risk_score |-> risk_score,
              recommendations |-> GenerateRecommendations(found.anomalies, risk_score),
              affected_metrics |-> found.affected_metrics,
              confidence |-> Min1(Frac(Len(found.anomalies), 5)) ]

\* a call of _detect_metric_anomalies
CallDetectMetricAnomalies ==
    /\ apc = "metric"
    /\ aresult' = [ anomalies |-> DetectMetricAnomalies("revenue", avalues) ]
    /\ apc' = "metric_done"
    /\ UNCHANGED <<avalues, atext>>
    /\ UNCHANGED <<svars, rvars, fvars, mvars, uvars, dvars, cvars, pvars, qvars, vvars, evars>>

\* a call of detect_anomalies
CallDetectAnomalies ==
    /\ apc = "text"
    /\ aresult' = DetectAnomalies(atext)
    /\ apc' = "text_done"
    /\ UNCHANGED <<avalues, atext>>
    /\ UNCHANGED <<svars, rvars, fvars, mvars, uvars, dvars, cvars, pvars, qvars, vvars, evars>>

\* no anomaly detection
AnomalyIdle ==
    /\ apc = "idle"
    /\ avalues = <<>>
    /\ atext = <<>>
    /\ aresult = [ anomalies |-> <<>> ]

----------------------------------------------------------------------------
(* generate_mock_sec_data and POST /api/sec-analysis (python_backend).      *)
(* Amounts are in millions (the code holds billions as doubles); ratios,    *)
(* margins and draws of the generator are in ten-thousandths; P/E and ROE   *)
(* are in hundredths.  Products are truncated to these units.               *)

\* int(hashlib.md5(ticker.upper().encode()).hexdigest()[:8], 16), held as
\* the ticker it was computed from and its remainder modulo 10
SeedValue(upper) ==
    [ of |-> upper,
      mod10 |-> CASE upper = "AAPL" -> 2
                  [] upper = "MSFT" -> 0
                  [] upper = "TECHCO" -> 4
                  [] upper = "BANKX" -> 0
                  [] upper = "ZZZ" -> 5
                  [] OTHER -> 7 ]

\* the first draws of the generator once seeded, each as the fraction of the
\* unit interval it stands for; the model repeats them from the start
\* beyond the last
Stream(seed) ==
    CASE seed.of = "AAPL" ->
           << 8298, 3606, 8752, 5624, 4865, 7090, 4145, 8896, 1555, 9216 >>
      [] seed.of = "MSFT" ->
           << 3251, 3266, 7903, 4277, 9769, 5632, 5590, 2474, 5232, 4806 >>
      [] seed.of = "TECHCO" ->
           << 5500, 4497, 7370, 6936, 3169, 7979, 3729, 5747, 4842, 3197, 5791 >>
      [] seed.of = "BANKX" ->
           << 4000, 7847, 7028, 3008, 5513, 2413, 5664, 1742, 2915, 4970, 2046 >>
      [] seed.of = "ZZZ" ->
           << 7500, 5640, 4116, 8661, 7566, 1706, 8683, 3768, 2092, 2031, 2547 >>
      [] OTHER ->
           << 1234, 5678, 9012, 3456, 7890, 2345, 6789, 123, 4567, 8901, 2468 >>

\* a faulty variant of RandomSeed: the generator is left where it is
RandomSeedKept(rng, seed) == rng

\* random.seed(seed)
RandomSeed(rng, seed) == [ seed |-> seed, pos |-> 0 ]

\* the k-th draw from the generator in state rng
Draw(rng, k) ==
    LET stream == Stream(rng.seed)
    IN stream[((rng.pos + k - 1) % Len(stream)) + 1]

\* random.uniform(a, b) on the draw u
Uniform(a, b, u) ==
    a + ((b - a) \div 10000) * u + (((b - a) % 10000) * u) \div 10000

\* random.choice(seq) on the draw u
Choice(seq, u) == seq[(u * Len(seq)) \div 10000 + 1]

\* sector_mapping
SectorMapping(upper) ==
    CASE upper = "AAPL" -> << "Technology", "Consumer Electronics", "Apple Inc." >>
      [] upper = "MSFT" -> << "Technology", "Software", "Microsoft Corporation" >>
      [] upper = "GOOGL" -> << "Communication Services", "Internet Services", "Alphabet Inc." >>
      [] upper = "AMZN" -> << "Consumer Discretionary", "E-commerce", "Amazon.com Inc." >>
      [] upper = "TSLA" -> << "Consumer Discretionary", "Automotive", "Tesla Inc." >>
      [] upper = "META" -> << "Communication Services", "Social Media", "Meta Platforms Inc." >>
      [] upper = "NVDA" -> << "Technology", "Semiconductors", "NVIDIA Corporation" >>
      [] upper = "NFLX" -> << "Communication Services", "Entertainment", "Netflix Inc." >>
      [] upper = "JPM" -> << "Financials", "Banking", "JPMorgan Chase & Co." >>
      [] upper = "BAC" -> << "Financials", "Banking", "Bank of America Corp." >>
      [] upper = "WFC" -> << "Financials", "Banking", "Wells Fargo & Company" >>
      [] upper = "GS" -> << "Financials", "Investment Banking", "Goldman Sachs Group Inc." >>
      [] upper = "MS" -> << "Financials", "Investment Banking", "Morgan Stanley" >>
      [] upper = "JNJ" -> << "Healthcare", "Pharmaceuticals", "Johnson & Johnson" >>
      [] upper = "PFE" -> << "Healthcare", "Pharmaceuticals", "Pfizer Inc." >>
      [] upper = "UNH" -> << "Healthcare", "Health Insurance", "UnitedHealth Group Inc." >>
      [] upper = "ABBV" -> << "Healthcare", "Biotechnology", "AbbVie Inc." >>
      [] upper = "KO" -> << "Consumer Staples", "Beverages", "The Coca-Cola Company" >>
      [] upper = "PEP" -> << "Consumer Staples", "Beverages", "PepsiCo Inc." >>
      [] upper = "WMT" -> << "Consumer Staples", "Retail", "Walmart Inc." >>
      [] upper = "HD" -> << "Consumer Discretionary", "Home Improvement", "The Home Depot Inc." >>
      [] upper = "XOM" -> << "Energy", "Oil & Gas", "Exxon Mobil Corporation" >>
      [] upper = "CVX" -> << "Energy", "Oil & Gas", "Chevron Corporation" >>
      [] upper = "BA" -> << "Industrials", "Aerospace", "The Boeing Company" >>
      [] upper = "CAT" -> << "Industrials", "Construction Equipment", "Caterpillar Inc." >>
      [] OTHER -> <<>>

\* the pattern words that occur in an upper-cased ticker of the model
PatternsIn(upper) ==
    CASE upper = "TECHCO" -> {"TECH"}
      [] upper = "BANKX" -> {"BANK"}
      [] OTHER -> {}

\* the sectors list chosen from by seed_value % len(sectors)
Sectors ==
    << << "Technology", "Software" >>,
       << "Healthcare", "Biotechnology" >>,
       << "Financials", "Banking" >>,
       << "Consumer Discretionary", "Retail" >>,
       << "Industrials", "Manufacturing" >>,
       << "Energy", "Oil & Gas" >>,
       << "Communication Services", "Media" >>,
       << "Consumer Staples", "Food & Beverages" >>,
       << "Utilities", "Electric Utilities" >>,
       << "Real Estate", "REITs" >> >>

\* sector and industry of a ticker that sector_mapping does not hold
SectorByPattern(upper, seed) ==
    LET found == PatternsIn(upper)
    IN IF found \cap {"TECH", "SOFT", "DATA", "COMP", "SYS"} # {}
       THEN << "Technology", "Software" >>
       ELSE IF found \cap {"BANK", "FIN", "CAP", "FUND"} # {}
       THEN << "Financials", "Financial Services" >>
       ELSE IF found \cap {"MED", "BIO", "PHARMA", "HEALTH"} # {}
       THEN << "Healthcare", "Healthcare Services" >>
       ELSE IF found \cap {"OIL", "GAS", "ENERGY"} # {}
       THEN << "Energy", "Oil & Gas" >>
       ELSE Sectors[seed.mod10 + 1]

\* sector_ranges, margin_ranges, pe_ranges and roe_ranges: the two ends of
\* the market cap (billions), net margin (hundredths), P/E and ROE of a sector
SectorRanges(sector) ==
    CASE sector = "Technology" ->
           [ cap |-> <<50, 3000>>, margin |-> <<15, 35>>, pe |-> <<20, 45>>, roe |-> <<15, 35>> ]
      [] sector = "Healthcare" ->
           [ cap |-> <<20, 500>>, margin |-> <<10, 25>>, pe |-> <<15, 30>>, roe |-> <<12, 25>> ]
      [] sector = "Financials" ->
           [ cap |-> <<30, 600>>, margin |-> <<20, 30>>, pe |-> <<8, 18>>, roe |-> <<8, 20>> ]
      [] sector = "Consumer Discretionary" ->
           [ cap |-> <<10, 1500>>, margin |-> <<5, 15>>, pe |-> <<15, 35>>, roe |-> <<10, 25>> ]
      [] sector = "Communication Services" ->
           [ cap |-> <<25, 2000>>, margin |-> <<10, 25>>, pe |-> <<15, 30>>, roe |-> <<10, 25>> ]
      [] sector = "Industrials" ->
           [ cap |-> <<15, 300>>, margin |-> <<5, 15>>, pe |-> <<12, 25>>, roe |-> <<8, 20>> ]
      [] sector = "Energy" ->
           [ cap |-> <<20, 400>>, margin |-> <<5, 20>>, pe |-> <<8, 20>>, roe |-> <<5, 15>> ]
      [] sector = "Consumer Staples" ->
           [ cap |-> <<30, 400>>, margin |-> <<5, 12>>, pe |-> <<15, 25>>, roe |-> <<15, 30>> ]
      [] sector = "Utilities" ->
           [ cap |-> <<10, 150>>, margin |-> <<8, 15>>, pe |-> <<12, 20>>, roe |-> <<8, 15>> ]
      [] sector = "Real Estate" ->
           [ cap |-> <<5, 100>>, margin |-> <<15, 30>>, pe |-> <<10, 25>>, roe |-> <<5, 15>> ]
      [] OTHER ->
           [ cap |-> <<10, 500>>, margin |-> <<8, 20>>, pe |-> <<15, 25>>, roe |-> <<10, 20>> ]

\* format_currency of an amount in millions: "$x.yT" from 1000 billions,
\* "$nB" from 1 billion, "$nM" below; digits holds x.y in tenths, or n
FormatCurrency(millions) ==
    IF millions >= 1000000
    THEN [ digits |-> RoundTo(millions, 100000) \div 100000, unit |-> "T" ]
    ELSE IF millions >= 1000
    THEN [ digits |-> RoundTo(millions, 1000) \div 1000, unit |-> "B" ]
    ELSE [ digits |-> millions, unit |-> "M" ]

\* extract_numeric_value: the amount a formatted string stands for, in millions
ExtractNumericValue(text) ==
    CASE text.unit = "T" -> text.digits * 100000
      [] text.unit = "B" -> text.digits * 1000
      [] text.unit = "M" -> text.digits

\* f"{x:.1f}" of x in hundredths: a text with one digit after the point
FormatOneDecimal(hundredths) ==
    [ tenths |-> RoundTo(hundredths, 10) \div 10, decimals |-> 1 ]

\* int(text): a text with a decimal point is no integer literal
IntOfText(text) ==
    IF text.decimals > 0 THEN [ ok |-> FALSE, error |-> "ValueError" ]
    ELSE [ ok |-> TRUE, v |-> text.tenths \div 10 ]

\* sector, industry and company name of an upper-cased ticker; u is the
\* draw random.choice gets for a ticker sector_mapping does not hold
CompanyOf(upper, seed_value, u) ==
    IF SectorMapping(upper) # <<>> THEN SectorMapping(upper)
    ELSE SectorByPattern(upper, seed_value)
         \o << upper \o " "
               \o Choice(<< "Inc.", "Corporation", "Corp.", "Company", "Ltd.", "LLC" >>, u) >>

\* revenue_b of a market cap: 15-35% of it above 100 billions, 25-50% below
RevenueOf(market_cap, u) ==
    LET revenue_ratio == IF market_cap > 100000 THEN Uniform(1500, 3500, u)
                         ELSE Uniform(2500, 5000, u)
    IN ((market_cap \div 10) * revenue_ratio) \div 1000

\* company_info; u[1..5] are the draws for market cap, revenue ratio, net
\* margin, P/E and ROE
CompanyInfo(company, u) ==
    LET ranges == SectorRanges(company[1])
        market_cap == Uniform(ranges.cap[1] * 1000, ranges.cap[2] * 1000, u[1])
        revenue == RevenueOf(market_cap, u[2])
        net_margin == Uniform(ranges.margin[1] * 100, ranges.margin[2] * 100, u[3])
    IN [ name |-> company[3],
         marketCap |-> FormatCurrency(market_cap),
         sector |-> company[1],
         industry |-> company[2],
         revenue |-> FormatCurrency(revenue),
         netIncome |-> FormatCurrency(((revenue \div 10) * net_margin) \div 1000),
         peRatio |-> FormatOneDecimal(Uniform(ranges.pe[1] * 100, ranges.pe[2] * 100, u[4])),
         roe |-> FormatOneDecimal(Uniform(ranges.roe[1] * 100, ranges.roe[2] * 100, u[5])) ]

\* the dict generate_mock_sec_data returns, or the exception that building
\* it raises; u[6..10] are the draws of financialSnapshot, which the dict
\* display makes before it reaches analystEstimates
MockSecRecord(upper, company_info, u, left) ==
    IF ~IntOfText(company_info.peRatio).ok
    THEN [ outcome |-> "raised",
           error |-> IntOfText(company_info.peRatio).error,
           company_info |-> company_info,
           rng |-> left ]
    ELSE [ outcome |-> "returned",
           symbol |-> upper,
           name |-> company_info.name,
           sector |-> company_info.sector,
           industry |-> company_info.industry,
           marketCap |-> company_info.marketCap,
           financialSnapshot |->
               [ revenue |-> company_info.revenue,
                 netIncome |-> company_info.netIncome,
                 totalAssets |->
                     FormatCurrency(ExtractNumericValue(company_info.revenue) * 2),
                 totalDebt |->
                     FormatCurrency(ExtractNumericValue(company_info.revenue) \div 3),
                 peRatio |-> company_info.peRatio,
                 roe |-> company_info.roe,
                 debtToEquity |-> Uniform(3000, 12000, u[6]),
                 currentRatio |-> Uniform(10000, 25000, u[7]),
                 operatingMargin |-> Uniform(1500, 3500, u[8]),
                 grossMargin |-> Uniform(2500, 6000, u[9]),
                 freeCashFlow |->
                     FormatCurrency(((ExtractNumericValue(company_info.netIncome) \div 10)
                                       * Uniform(11000, 15000, u[10])) \div 1000) ],
           analystEstimates |->
               [ priceTarget |-> IntOfText(company_info.peRatio).v * 10,
                 recommendation |-> IF upper \in {"AAPL", "MSFT", "GOOGL"}
                                    THEN "BUY" ELSE "HOLD" ],
           confidence |-> 85,
           dataSource |-> "Mock Data for Development",
           rng |-> left ]

\* the draws a call makes from the seeded generator: one for random.choice
\* when sector_mapping does not hold the ticker, then ten for random.uniform
ChoiceDraws(upper) == IF SectorMapping(upper) # <<>> THEN 0 ELSE 1

\* generate_mock_sec_data in the generator state rng: how the call ended,
\* what it returned (or the company_info it had built when it raised) and
\* the generator state it left
GenerateMockSecData(ticker, rng) ==
    LET seeded == RandomSeed(rng, SeedValue(Upper(ticker)))
        first == ChoiceDraws(Upper(ticker))
    IN MockSecRecord(Upper(ticker),
                     CompanyInfo(CompanyOf(Upper(ticker), SeedValue(Upper(ticker)),
                                           Draw(seeded, 1)),
                                 [ k \in 1..5 |-> Draw(seeded, first + k) ]),
                     [ k \in 1..10 |-> Draw(seeded, first + k) ],
                     [ seed |-> seeded.seed, pos |-> seeded.pos + first + 10 ])

\* one direct call of generate_mock_sec_data, with the next ticker
CallGenerateMockSecData ==
    /\ mpc = "calls"
    /\ Len(mcalls) < Len(mtickers)
    /\ LET result == GenerateMockSecData(mtickers[Len(mcalls) + 1], mrng)
       IN /\ mcalls' = Append(mcalls, result)
          /\ mrng' = result.rng
    /\ UNCHANGED <<mpc, mtickers, mrequest, mresponse>>
    /\ UNCHANGED <<svars, rvars, fvars, avars, uvars, dvars, cvars, pvars, qvars, vvars, evars>>

MaxOtherDraws == 2

\* other code of the process draws from the shared generator (the mock
\* forecasts of python_backend/main.py call random.uniform and randint)
UseRandomElsewhere ==
    /\ mpc = "calls"
    /\ mrng.pos < 10 + MaxOtherDraws
    /\ mrng' = [ mrng EXCEPT !.pos = @ + 1 ]
    /\ UNCHANGED <<mpc, mtickers, mcalls, mrequest, mresponse>>
    /\ UNCHANGED <<svars, rvars, fvars, avars, uvars, dvars, cvars, pvars, qvars, vvars, evars>>

\* POST /api/sec-analysis.  mrequest.analyzer: "unavailable" (the import of
\* SECAnalyzer failed), "raises" (analyze_company raised) or "answers".
SecAnalysis ==
    /\ mpc = "request"
    /\ LET analysis == [ outcome |-> "returned",
                         symbol |-> mrequest.ticker,
                         dataSource |-> "SEC analyzer" ]
           in_try == IF mrequest.analyzer = "answers" THEN analysis
                     ELSE IF mrequest.analyzer = "raises"
                     THEN [ outcome |-> "raised", error |-> "Exception", rng |-> mrng ]
                     ELSE GenerateMockSecData(mrequest.ticker, mrng)
           \* except Exception: the mock data, whatever raised in the try
           final == IF in_try.outcome = "raised"
                    THEN GenerateMockSecData(mrequest.ticker, in_try.rng)
                    ELSE in_try
       IN /\ mresponse' = IF final.outcome = "returned"
                          THEN [ status |-> 200, body |-> final ]
                          ELSE [ status |-> 500, body |-> "Internal Server Error" ]
          /\ mrng' = IF mrequest.analyzer = "answers" THEN mrng ELSE final.rng
    /\ mpc' = "responded"
    /\ UNCHANGED <<mtickers, mcalls, mrequest>>
    /\ UNCHANGED <<svars, rvars, fvars, avars, uvars, dvars, cvars, pvars, qvars, vvars, evars>>

\* no use of the SEC endpoints
SecIdle ==
    /\ mpc = "idle"
    /\ mtickers = <<>>
    /\ mcalls = <<>>
    /\ mrng = [ seed |-> SeedValue(""), pos |-> 0 ]
    /\ mrequest = [ ticker |-> "" ]
    /\ mresponse = [ status |-> 0 ]

----------------------------------------------------------------------------
(* POST /documents/upload.  A file is its name and whether its bytes can   *)
(* be read as what the name says.                                           *)

\* os.path.splitext(filename)[1] for the file names of the model
Splitext(filename) ==
    CASE filename = "report.pdf" -> ".pdf"
      [] filename = "REPORT.PDF" -> ".PDF"
      [] filename = "notes.txt" -> ".txt"
      [] filename = "sheet.Xlsx" -> ".Xlsx"
      [] filename = "memo.docx" -> ".docx"
      [] filename = "tool.exe" -> ".exe"
      [] filename = "report.pdf.exe" -> ".exe"
      [] filename = "scan.PNG" -> ".PNG"
      [] OTHER -> ""

\* str.lower() for the extensions of the model
Lower(extension) ==
    CASE extension = ".PDF" -> ".pdf"
      [] extension = ".Xlsx" -> ".xlsx"
      [] extension = ".PNG" -> ".png"
      [] OTHER -> extension

\* settings.ALLOWED_EXTENSIONS
AllowedExtensions == {".pdf", ".docx", ".txt", ".xlsx"}

\* settings.UPLOAD_DIR joined with the file name
UploadPath(filename) == "uploads/" \o filename

\* DocumentProcessor.extract_text on the stored file: the text, or the
\* exception of the extractor.  _extract_docx_text does not open the file.
ExtractText(file, file_extension) ==
    IF file_extension = ".docx"
    THEN [ ok |-> TRUE,
           text |-> "DOCX content from " \o file.filename
                    \o " - Text extraction not implemented yet." ]
    ELSE IF file_extension \notin {".pdf", ".txt", ".xlsx"}
    THEN [ ok |-> FALSE, error |-> "Unsupported file type: " \o file_extension ]
    ELSE IF file.readable
    THEN [ ok |-> TRUE, text |-> "text of " \o file.filename ]
    ELSE [ ok |-> FALSE, error |-> "Error extracting text" ]

\* the id the database gives the next row of a table
RECURSIVE MaxId(_)
MaxId(rows) ==
    IF rows = <<>> THEN 0
    ELSE LET rest == MaxId(Tail(rows))
         IN IF rows[1].id > rest THEN rows[1].id ELSE rest

\* a path -> content mapping with one file written (created or replaced)
WriteFile(files, path, content) ==
    [ p \in DOMAIN files \cup {path} |-> IF p = path THEN content ELSE files[p] ]

\* a faulty variant of UploadDocument: the file is saved before its type is
\* checked
UploadDocumentSavingFirst(file, files, rows) ==
    LET file_extension == Lower(Splitext(file.filename))
        file_path == UploadPath(file.filename)
        saved == WriteFile(files, file_path, file)
        content == ExtractText(file, file_extension)
        db_document == [ id |-> MaxId(rows) + 1,
                         filename |-> file.filename,
                         file_path |-> file_path,
                         file_type |-> file_extension,
                         content |-> content.text ]
    IN IF file_extension \notin AllowedExtensions
       THEN [ status |-> 400,
              detail |-> "File type " \o file_extension \o " not allowed",
              uploads |-> saved,
              documents |-> rows ]
       ELSE IF ~content.ok
       THEN [ status |-> 500,
              detail |-> "Internal server error",
              uploads |-> saved,
              documents |-> rows ]
       ELSE [ status |-> 200,
              body |-> db_document,
              uploads |-> saved,
              documents |-> Append(rows, db_document) ]

\* upload_document: the answer, the upload directory and the table after it
UploadDocument(file, files, rows) ==
    LET file_extension == Lower(Splitext(file.filename))
        file_path == UploadPath(file.filename)
        saved == WriteFile(files, file_path, file)
        content == ExtractText(file, file_extension)
        db_document == [ id |-> MaxId(rows) + 1,
                         filename |-> file.filename,
                         file_path |-> file_path,
                         file_type |-> file_extension,
                         content |-> content.text ]
    IN IF file_extension \notin AllowedExtensions
       THEN [ status |-> 400,
              detail |-> "File type " \o file_extension \o " not allowed",
              uploads |-> files,
              documents |-> rows ]
       ELSE IF ~content.ok
       THEN [ status |-> 500,
              detail |-> "Internal server error",
              uploads |-> saved,
              documents |-> rows ]
       ELSE [ status |-> 200,
              body |-> db_document,
              uploads |-> saved,
              documents |-> Append(rows, db_document) ]

MaxUploads == 2

Filenames ==
    { "report.pdf", "REPORT.PDF", "notes.txt", "sheet.Xlsx", "memo.docx",
      "tool.exe", "report.pdf.exe", "scan.PNG", "README", ".pdf" }

\* POST /documents/upload with some file
PostUpload ==
    /\ upc = "serving"
    /\ ucount < MaxUploads
    /\ \E file \in [ filename : Filenames, readable : BOOLEAN ] :
          LET answer == UploadDocument(file, uploads, documents)
          IN /\ ufile' = file
             /\ uresponse' = [ status |-> answer.status ]
             /\ uploads' = answer.uploads
             /\ documents' = answer.documents
    /\ ucount' = ucount + 1
    /\ UNCHANGED upc
    /\ UNCHANGED <<svars, rvars, fvars, avars, mvars, dvars, cvars, pvars, qvars, vvars, evars>>

\* no upload
UploadIdle ==
    /\ upc = "idle"
    /\ ucount = 0
    /\ ufile = [ filename |-> "" ]
    /\ uresponse = [ status |-> 0 ]
    /\ uploads = << >>
    /\ documents = <<>>

----------------------------------------------------------------------------
(* The documents service: upload, delete and the analyses of a stored      *)
(* document.  A handler runs on the event loop until it awaits an          *)
(* operation that is pending.  ask_question, detect_anomalies,             *)
(* analyze_sentiment and delete_document await only coroutines that never  *)
(* suspend, so each of them is one step.  upload_document suspends in the  *)
(* aiofiles block (open, write, close: taken as one step, SaveUpload) and  *)
(* goes on with extract_text and the insert (StoreUpload).                 *)

\* db.query(Document).filter(Document.id == document_id).first(), as a
\* sequence of at most one row
FindDocument(rows, document_id) ==
    LET matches(row) == row.id = document_id
        found == SelectSeq(rows, matches)
    IN IF found = <<>> THEN <<>> ELSE << found[1] >>

\* a faulty variant of RemoveFile: nothing is removed
RemoveFileKept(files, path) ==
    files

\* a path -> content mapping with one file removed
RemoveFile(files, path) ==
    [ p \in DOMAIN files \ {path} |-> files[p] ]

\* a faulty variant of DeleteDocument: the row stays, its content blanked
DeleteDocumentBlanking(document_id, files, rows) ==
    LET found == FindDocument(rows, document_id)
    IN IF found = <<>>
       THEN [ status |-> 404, detail |-> "Document not found",
              uploads |-> files, documents |-> rows ]
       ELSE [ status |-> 200, detail |-> "Document deleted successfully",
              uploads |-> IF found[1].file_path \in DOMAIN files
                          THEN RemoveFile(files, found[1].file_path)
                          ELSE files,
              documents |-> [ k \in 1..Len(rows) |->
                                IF rows[k].id = document_id
                                THEN [ rows[k] EXCEPT !.content = "" ]
                                ELSE rows[k] ] ]

\* delete_document: the answer, the upload directory and the table after it
DeleteDocument(document_id, files, rows) ==
    LET found == FindDocument(rows, document_id)
        others(row) == row.id # document_id
    IN IF found = <<>>
       THEN [ status |-> 404, detail |-> "Document not found",
              uploads |-> files, documents |-> rows ]
       ELSE [ status |-> 200, detail |-> "Document deleted successfully",
              uploads |-> IF found[1].file_path \in DOMAIN files
                          THEN RemoveFile(files, found[1].file_path)
                          ELSE files,
              documents |-> SelectSeq(rows, others) ]

\* what a service returns for a document's content: the services are
\* modelled on their own, a row holds the call that produced its result
ServiceResult(service, content, question) ==
    [ service |-> service, content |-> content, question |-> question ]

\* a faulty variant of AnalyseDocument: no lookup of the document
AnalyseDocumentUnchecked(analysis_type, document_id, question, rows, results) ==
    LET found == FindDocument(rows, document_id)
        content == IF found = <<>> THEN "" ELSE found[1].content
    IN [ status |-> 200,
         results |-> Append(results,
                        [ id |-> MaxId(results) + 1,
                          document_id |-> document_id,
                          analysis_type |-> analysis_type,
                          result |-> ServiceResult(analysis_type, content, question) ]) ]

\* ask_question ("qa"), detect_anomalies ("anomaly") and analyze_sentiment
\* ("sentiment"): the lookup-or-404, the call of the service and the insert
\* into the table of the handler
AnalyseDocument(analysis_type, document_id, question, rows, results) ==
    LET found == FindDocument(rows, document_id)
    IN IF found = <<>>
       THEN [ status |-> 404, detail |-> "Document not found", results |-> results ]
       ELSE [ status |-> 200,
              results |-> Append(results,
                             [ id |-> MaxId(results) + 1,
                               document_id |-> document_id,
                               analysis_type |-> analysis_type,
                               result |-> ServiceResult(analysis_type,
                                                        found[1].content, question) ]) ]

\* DocumentProcessor.extract_text on the file found at file_path
ExtractTextAt(files, file_path, file_extension) ==
    IF file_path \notin DOMAIN files
    THEN [ ok |-> FALSE, error |-> "File not found: " \o file_path ]
    ELSE ExtractText(files[file_path], file_extension)

\* the files clients upload and the questions they ask
DocFiles == [ filename : {"report.pdf", "notes.txt", "tool.exe"}, readable : BOOLEAN ]

Questions == {"What is the revenue?"}

\* upload_document up to the end of its aiofiles block: the extension
\* check, then the file written at its path
SaveUpload ==
    /\ dpc = "serving"
    /\ dcount < dlimit
    /\ \E file \in DocFiles :
          LET file_extension == Lower(Splitext(file.filename))
              file_path == UploadPath(file.filename)
          IN /\ drequest' = [ kind |-> "upload", file |-> file ]
             /\ IF file_extension \notin AllowedExtensions
                THEN /\ dresponse' = [ status |-> 400 ]
                     /\ UNCHANGED <<uploads, dpending>>
                ELSE /\ dresponse' = [ status |-> 0 ]
                     /\ uploads' = WriteFile(uploads, file_path, file)
                     /\ dpending' = Append(dpending,
                                       [ file |-> file,
                                         file_path |-> file_path,
                                         file_extension |-> file_extension ])
    /\ dcount' = dcount + 1
    /\ UNCHANGED <<dpc, dlimit, analyses, sentiments, dbytes, documents>>
    /\ UNCHANGED <<upc, ucount, ufile, uresponse>>
    /\ UNCHANGED <<svars, rvars, fvars, avars, mvars, cvars, pvars, qvars, vvars, evars>>

\* the rest of upload_document: extract_text on the file at the path, then
\* the Document row
StoreUpload ==
    /\ dpc = "serving"
    /\ \E i \in 1..Len(dpending) :
          LET upload == dpending[i]
              content == ExtractTextAt(uploads, upload.file_path, upload.file_extension)
              db_document == [ id |-> MaxId(documents) + 1,
                               filename |-> upload.file.filename,
                               file_path |-> upload.file_path,
                               file_type |-> upload.file_extension,
                               content |-> content.text ]
          IN /\ drequest' = [ kind |-> "upload", file |-> upload.file ]
             /\ dpending' = [ k \in 1..(Len(dpending) - 1) |->
                                IF k < i THEN dpending[k] ELSE dpending[k + 1] ]
             /\ IF content.ok
                THEN /\ documents' = Append(documents, db_document)
                     /\ dbytes' = [ d \in DOMAIN dbytes \cup {db_document.id} |->
                                      IF d = db_document.id THEN upload.file
                                      ELSE dbytes[d] ]
                     /\ dresponse' = [ status |-> 200, id |-> db_document.id ]
                ELSE /\ dresponse' = [ status |-> 500 ]
                     /\ UNCHANGED <<documents, dbytes>>
    /\ UNCHANGED <<dpc, dcount, dlimit, analyses, sentiments, uploads>>
    /\ UNCHANGED <<upc, ucount, ufile, uresponse>>
    /\ UNCHANGED <<svars, rvars, fvars, avars, mvars, cvars, pvars, qvars, vvars, evars>>

\* DELETE /documents/{document_id}
DeleteDocumentRequest ==
    /\ dpc = "serving"
    /\ dcount < dlimit
    /\ \E document_id \in 1..dlimit :
          LET answer == DeleteDocument(document_id, uploads, documents)
          IN /\ drequest' = [ kind |-> "delete", document_id |-> document_id ]
             /\ dresponse' = [ status |-> answer.status ]
             /\ uploads' = answer.uploads
             /\ documents' = answer.documents
    /\ dcount' = dcount + 1
    /\ UNCHANGED <<dpc, dlimit, dpending, analyses, sentiments, dbytes>>
    /\ UNCHANGED <<upc, ucount, ufile, uresponse>>
    /\ UNCHANGED <<svars, rvars, fvars, avars, mvars, cvars, pvars, qvars, vvars, evars>>

\* POST /analysis/qa and POST /analysis/anomaly
AnalysisRequest ==
    /\ dpc = "serving"
    /\ dcount < dlimit
    /\ \E kind \in {"qa", "anomaly"}, document_id \in 1..dlimit, question \in Questions :
          LET answer == AnalyseDocument(kind, document_id, question, documents, analyses)
          IN /\ drequest' = [ kind |-> kind, document_id |-> document_id ]
             /\ dresponse' = [ status |-> answer.status ]
             /\ analyses' = answer.results
    /\ dcount' = dcount + 1
    /\ UNCHANGED <<dpc, dlimit, dpending, sentiments, dbytes, uploads, documents>>
    /\ UNCHANGED <<upc, ucount, ufile, uresponse>>
    /\ UNCHANGED <<svars, rvars, fvars, avars, mvars, cvars, pvars, qvars, vvars, evars>>

\* POST /sentiment/analyze
AnalyzeSentimentRequest ==
    /\ dpc = "serving"
    /\ dcount < dlimit
    /\ \E document_id \in 1..dlimit :
          LET answer == AnalyseDocument("sentiment", document_id, "", documents, sentiments)
          IN /\ drequest' = [ kind |-> "sentiment", document_id |-> document_id ]
             /\ dresponse' = [ status |-> answer.status ]
             /\ sentiments' = answer.results
    /\ dcount' = dcount + 1
    /\ UNCHANGED <<dpc, dlimit, dpending, analyses, dbytes, uploads, documents>>
    /\ UNCHANGED <<upc, ucount, ufile, uresponse>>
    /\ UNCHANGED <<svars, rvars, fvars, avars, mvars, cvars, pvars, qvars, vvars, evars>>

\* no request to the analysis, sentiment and delete endpoints
DocsIdle ==
    /\ dpc = "idle"
    /\ dcount = 0
    /\ dlimit = 0
    /\ dpending = <<>>
    /\ drequest = [ kind |-> "" ]
    /\ dresponse = [ status |-> 0 ]
    /\ analyses = <<>>
    /\ sentiments = <<>>
    /\ dbytes = << >>

----------------------------------------------------------------------------
(* The outbound calls of a request.  The services of src/app reach a third *)
(* party in three places: ticker.history and ticker.info of yfinance and   *)
(* openai.ChatCompletion.create.  A call is logged with whether it         *)
(* returned; what the handlers compute from the answers is modelled above. *)

\* the log with one more call
Called(calls, service, ok) ==
    Append(calls, [ service |-> service, ok |-> ok ])

\* a faulty variant of AskOpenai: a failed completion is requested again
AskOpenaiRetrying(calls, outcome) ==
    IF outcome = "raises"
    THEN Called(Called(calls, "openai.ChatCompletion.create", FALSE),
                "openai.ChatCompletion.create", FALSE)
    ELSE Called(calls, "openai.ChatCompletion.create", TRUE)

\* DocumentQA._ask_openai: one completion request; when it raises, the
\* except clause goes on with _ask_rule_based
AskOpenai(calls, outcome) ==
    Called(calls, "openai.ChatCompletion.create", outcome # "raises")

CallRequests ==
    [ kind : {"strategy"},
      include_technical_analysis : BOOLEAN,
      include_fundamental_analysis : BOOLEAN ]
    \cup [ kind : {"forecast"},
           forecast_type : {"stock_price", "earnings", "revenue", "dividends"} ]
    \cup [ kind : {"qa"}, api_key : BOOLEAN, content : {"", "text"} ]

MaxCallRequests == 3

\* a request arrives; its handler starts
ReceiveRequest ==
    /\ cpc \in {"waiting", "returned"}
    /\ ccount < MaxCallRequests
    /\ \E request \in CallRequests :
          /\ crequest' = request
          /\ cpc' = request.kind
    /\ ccount' = ccount + 1
    /\ ccalls' = <<>>
    /\ UNCHANGED <<svars, rvars, fvars, avars, mvars, uvars, dvars, pvars, qvars, vvars, evars>>

\* generate_recommendation, lines 27-31: the history is requested; an
\* exception or an empty frame ends the analysis with the default answer
StrategyHistory ==
    /\ cpc = "strategy"
    /\ \E outcome \in {"data", "empty", "raises"} :
          /\ ccalls' = Called(ccalls, "yfinance.history", outcome # "raises")
          /\ cpc' = IF outcome = "data" THEN "strategy_technical" ELSE "returned"
    /\ UNCHANGED <<ccount, crequest>>
    /\ UNCHANGED <<svars, rvars, fvars, avars, mvars, uvars, dvars, pvars, qvars, vvars, evars>>

\* lines 39-41: the technical analysis works on the frame; it may raise
StrategyTechnical ==
    /\ cpc = "strategy_technical"
    /\ \E raises \in BOOLEAN :
          /\ raises => crequest.include_technical_analysis
          /\ cpc' = IF raises THEN "returned" ELSE "strategy_fundamental"
    /\ UNCHANGED <<ccount, crequest, ccalls>>
    /\ UNCHANGED <<svars, rvars, fvars, avars, mvars, uvars, dvars, pvars, qvars, vvars, evars>>

\* lines 43-45 with _analyze_fundamental_metrics: ticker.info is requested
\* when the fundamental analysis is asked for; its exception is caught there
StrategyInfo ==
    /\ cpc = "strategy_fundamental"
    /\ IF crequest.include_fundamental_analysis
       THEN \E outcome \in {"info", "raises"} :
               ccalls' = Called(ccalls, "yfinance.info", outcome # "raises")
       ELSE UNCHANGED ccalls
    /\ cpc' = "strategy_rest"
    /\ UNCHANGED <<ccount, crequest>>
    /\ UNCHANGED <<svars, rvars, fvars, avars, mvars, uvars, dvars, pvars, qvars, vvars, evars>>

\* lines 47-91: the scores, the recommendation and the answer, or the
\* except clause
StrategyRest ==
    /\ cpc = "strategy_rest"
    /\ cpc' = "returned"
    /\ UNCHANGED <<ccount, crequest, ccalls>>
    /\ UNCHANGED <<svars, rvars, fvars, avars, mvars, uvars, dvars, pvars, qvars, vvars, evars>>

\* generate_forecast: _get_historical_data requests the history and turns
\* an exception into an empty frame; the forecast routines call nobody
ForecastHistory ==
    /\ cpc = "forecast"
    /\ \E outcome \in {"data", "empty", "raises"} :
          ccalls' = Called(ccalls, "yfinance.history", outcome # "raises")
    /\ cpc' = "returned"
    /\ UNCHANGED <<ccount, crequest>>
    /\ UNCHANGED <<svars, rvars, fvars, avars, mvars, uvars, dvars, pvars, qvars, vvars, evars>>

\* DocumentQA.ask_question: no call for an empty document or without an
\* API key
AskQuestionCalls ==
    /\ cpc = "qa"
    /\ IF crequest.content # "" /\ crequest.api_key
       THEN \E outcome \in {"answer", "raises"} :
               ccalls' = AskOpenai(ccalls, outcome)
       ELSE UNCHANGED ccalls
    /\ cpc' = "returned"
    /\ UNCHANGED <<ccount, crequest>>
    /\ UNCHANGED <<svars, rvars, fvars, avars, mvars, uvars, dvars, pvars, qvars, vvars, evars>>

\* no request whose calls are followed
CallsIdle ==
    /\ cpc = "idle"
    /\ ccount = 0
    /\ crequest = [ kind |-> "" ]
    /\ ccalls = <<>>

----------------------------------------------------------------------------
(* DocumentQA.ask_question.  A text is a sequence of sentences (what       *)
(* split('.') gives), a sentence a sequence of words; a question is one    *)
(* sentence.  Confidences are in hundredths.                               *)

\* str.lower() on the words of the vocabulary
LowerWord(w) ==
    CASE w = "Revenue" -> "revenue"
      [] w = "Net" -> "net"
      [] w = "Market" -> "market"
      [] w = "Growth" -> "growth"
      [] w = "What" -> "what"
      [] w = "How" -> "how"
      [] w = "Who" -> "who"
      [] w = "CEO" -> "ceo"
      [] OTHER -> w

\* the keyword occurs in the lower-cased word (keyword in word)
InWord(keyword, w) ==
    \/ LowerWord(w) = keyword
    \/ <<keyword, LowerWord(w)>> \in {<<"risk", "risks">>, <<"revenue", "revenues">>}

\* keyword in text_lower, for a keyword of one or two words and the words
\* of one sentence
KeywordIn(keyword, words) ==
    \E i \in 1..Len(words) :
       IF Len(keyword) = 1
       THEN InWord(keyword[1], words[i])
       ELSE /\ i < Len(words)
            /\ LowerWord(words[i]) = keyword[1]
            /\ LowerWord(words[i + 1]) = keyword[2]

\* any(word in text_lower for word in keywords)
AnyKeywordIn(keywords, words) == \E keyword \in keywords : KeywordIn(keyword, words)

\* the group ([\d,]+\.?\d*) after an optional $, with the commas removed;
\* "" when the word is no amount
Amount(w) ==
    CASE w = "1,200" -> "1200"
      [] w = "$300" -> "300"
      [] w = "45" -> "45"
      [] OTHER -> ""

\* re.findall(keyword[:\s]*\$?([\d,]+\.?\d*), ...) within one sentence: the
\* amounts that follow the keyword directly, in the order of the text
FindAllIn(keyword, words) ==
    LET at == Len(keyword)
        Hit(i) == /\ i + at <= Len(words)
                  /\ \A k \in 1..at : LowerWord(words[i + k - 1]) = keyword[k]
                  /\ Amount(words[i + at]) # ""
        Pick[i \in 0..Len(words)] ==
            IF i = 0 THEN <<>>
            ELSE IF Hit(i) THEN Append(Pick[i - 1], Amount(words[i + at]))
            ELSE Pick[i - 1]
    IN Pick[Len(words)]

\* re.findall over the whole text
RECURSIVE FindAll(_, _)
FindAll(keyword, content) ==
    IF content = <<>> THEN <<>>
    ELSE FindAllIn(keyword, Head(content)) \o FindAll(keyword, Tail(content))

\* the first pattern of the list that matches gives the value
RECURSIVE FirstMatch(_, _)
FirstMatch(patterns, content) ==
    IF patterns = <<>> THEN ""
    ELSE LET matches == FindAll(Head(patterns), content)
         IN IF matches # <<>> THEN matches[1]
            ELSE FirstMatch(Tail(patterns), content)

\* the sentences that hold one of the keywords, the first three of them
KeywordSentences(keywords, content) ==
    LET Holds(sentence) == AnyKeywordIn(keywords, sentence)
        found == SelectSeq(content, Holds)
    IN SubSeq(found, 1, IF Len(found) < 3 THEN Len(found) ELSE 3)

ExtractRevenueInfo(content) ==
    LET revenue_value == FirstMatch(<< <<"revenue">>, <<"sales">>, <<"income">> >>, content)
    IN IF revenue_value # ""
       THEN [ answer |-> <<"The revenue is $", revenue_value>>, confidence |-> 70,
              sources |-> "Revenue data extraction" ]
       ELSE [ answer |-> <<"Revenue information is not clearly stated in this document.">>,
              confidence |-> 30, sources |-> "Document content" ]

ExtractProfitInfo(content) ==
    LET profit_value == FirstMatch(<< <<"profit">>, <<"earnings">>, <<"net", "income">> >>, content)
    IN IF profit_value # ""
       THEN [ answer |-> <<"The profit/earnings is $", profit_value>>, confidence |-> 70,
              sources |-> "Profit data extraction" ]
       ELSE [ answer |-> <<"Profit/earnings information is not clearly stated in this document.">>,
              confidence |-> 30, sources |-> "Document content" ]

ExtractRiskInfo(content) ==
    LET risk_sentences == KeywordSentences({<<"risk">>, <<"challenge">>, <<"uncertainty">>,
                                            <<"volatility">>, <<"exposure">>}, content)
    IN IF risk_sentences # <<>>
       THEN [ answer |-> <<"Key risks identified:", risk_sentences>>, confidence |-> 60,
              sources |-> "Risk analysis" ]
       ELSE [ answer |-> <<"No specific risks are clearly identified in this document.">>,
              confidence |-> 40, sources |-> "Document content" ]

ExtractGrowthInfo(content) ==
    LET growth_sentences == KeywordSentences({<<"growth">>, <<"increase">>, <<"decrease">>,
                                              <<"change">>, <<"growth", "rate">>}, content)
    IN IF growth_sentences # <<>>
       THEN [ answer |-> <<"Growth information:", growth_sentences>>, confidence |-> 60,
              sources |-> "Growth analysis" ]
       ELSE [ answer |-> <<"No specific growth information is clearly stated in this document.">>,
              confidence |-> 40, sources |-> "Document content" ]

\* _ask_rule_based: the first group of keywords found in the question
\* chooses the extraction
AskRuleBased(document_content, question) ==
    IF AnyKeywordIn({<<"revenue">>, <<"sales">>, <<"income">>}, question)
    THEN ExtractRevenueInfo(document_content)
    ELSE IF AnyKeywordIn({<<"profit">>, <<"earnings">>, <<"net", "income">>}, question)
    THEN ExtractProfitInfo(document_content)
    ELSE IF AnyKeywordIn({<<"risk">>, <<"risks">>, <<"challenge">>, <<"challenges">>}, question)
    THEN ExtractRiskInfo(document_content)
    ELSE IF AnyKeywordIn({<<"growth">>, <<"increase">>, <<"decrease">>, <<"change">>}, question)
    THEN ExtractGrowthInfo(document_content)
    ELSE [ answer |-> <<"I can help you find information about revenue, profit, risks, and growth in this document. Please ask a specific question about these topics.">>,
           confidence |-> 50, sources |-> "Document content" ]

\* _ask_openai whose except clause is missing: what the call raises leaves
\* the method
AskOpenaiAnswerRaising(document_content, question, llm) ==
    IF llm = "answers"
    THEN [ answer |-> <<"answer of the model">>, confidence |-> 85,
           sources |-> "Document content analysis" ]
    ELSE [ raised |-> llm ]

\* _ask_openai: the answer of the chat completion; an exception of the
\* call, or of reading an answer that has no content, falls back to the
\* rules
AskOpenaiAnswer(document_content, question, llm) ==
    IF llm = "answers"
    THEN [ answer |-> <<"answer of the model">>, confidence |-> 85,
           sources |-> "Document content analysis" ]
    ELSE AskRuleBased(document_content, question)

\* ask_question
AskQuestion(document_content, question, api_key, llm) ==
    IF document_content = <<>>
    THEN [ answer |-> <<"No document content available to answer the question.">>,
           confidence |-> 0, sources |-> "" ]
    ELSE IF api_key # ""
    THEN AskOpenaiAnswer(document_content, question, llm)
    ELSE AskRuleBased(document_content, question)

\* document texts: none, one with a revenue figure, one with a net income
\* and a risk, one about growth, one with nothing the rules look for
QaContents ==
    { <<>>,
      << <<"Revenue", "1,200">>, <<"profit", "45">> >>,
      << <<"Net", "income", "$300">>, <<"Market", "risk", "is", "high">> >>,
      << <<"Growth", "slowed">>, <<"sales", "fell">> >>,
      << <<"the", "board", "met">> >> }

QaQuestions ==
    { <<"What", "is", "the", "revenue">>,
      <<"What", "is", "the", "net", "income">>,
      <<"What", "is", "the", "profit">>,
      <<"What", "are", "the", "risks">>,
      <<"How", "is", "growth">>,
      <<"Who", "is", "the", "CEO">> }

MaxQuestions == 2

\* a question arrives, in a process with or without OPENAI_API_KEY; llm is
\* what the chat completion would do: answer, raise, or answer without
\* content
ReceiveQuestion ==
    /\ qpc = "ready"
    /\ qcount < MaxQuestions
    /\ qrequest' \in [ document_content : QaContents, question : QaQuestions,
                       api_key : {"", "sk-key"},
                       llm : {"answers", "raises", "no content"} ]
    /\ qpc' = "asked"
    /\ qcount' = qcount + 1
    /\ UNCHANGED qresponse
    /\ UNCHANGED <<svars, rvars, fvars, avars, mvars, uvars, dvars, cvars, pvars, vvars, evars>>

\* ask_question returns
AnswerQuestion ==
    /\ qpc = "asked"
    /\ qresponse' = AskQuestion(qrequest.document_content, qrequest.question,
                                qrequest.api_key, qrequest.llm)
    /\ qpc' = "ready"
    /\ UNCHANGED <<qcount, qrequest>>
    /\ UNCHANGED <<svars, rvars, fvars, avars, mvars, uvars, dvars, cvars, pvars, vvars, evars>>

\* no question
QaIdle ==
    /\ qpc = "idle"
    /\ qcount = 0
    /\ qrequest = [ question |-> <<>> ]
    /\ qresponse = [ confidence |-> 0 ]

----------------------------------------------------------------------------
(* VectorStore: the FAISS index and the metadata list kept next to it.      *)
(* An embedding is a point on a line and the L2 distance the square of the *)
(* difference.  IndexFlatL2 keeps the vectors in the order they were       *)
(* added, numbers them from 0 and has no removal; each vector of the model *)
(* also records the document and chunk it was computed from, which the     *)
(* index itself does not hold.  Positions of the sequences are one more    *)
(* than the positions of the code.                                         *)

Distance(x, y) == (x - y) * (x - y)

\* how many vectors of the index come before position i in a search for
\* query: the nearer ones and, at equal distance, the earlier ones
RankInIndex(index, query, i) ==
    Cardinality({ j \in 1..Len(index) :
                    \/ Distance(index[j].embedding, query) < Distance(index[i].embedding, query)
                    \/ /\ Distance(index[j].embedding, query) = Distance(index[i].embedding, query)
                       /\ j < i })

\* faiss_index.search(query_array, top_k): the positions (from 0) of the
\* top_k nearest vectors, nearest first, filled with -1 when the index
\* holds fewer than top_k vectors
IndexSearch(index, query, top_k) ==
    [ r \in 1..top_k |->
        IF r <= Len(index)
        THEN (CHOOSE i \in 1..Len(index) : RankInIndex(index, query, i) = r - 1) - 1
        ELSE -1 ]

\* faiss_documents[idx] of Python: a negative idx counts from the end
ListItem(list, idx) == IF idx < 0 THEN list[Len(list) + idx + 1] ELSE list[idx + 1]

\* _store_in_faiss: the vectors go to the index and one metadata entry per
\* chunk to the list.  index.add of an empty array raises, which is caught
\* and leaves both as they are.
StoreInFaiss(doc_id, embeddings, index, list) ==
    IF embeddings = <<>>
    THEN [ index |-> index, list |-> list ]
    ELSE [ index |-> index \o [ i \in 1..Len(embeddings) |->
                                  [ embedding |-> embeddings[i], document_id |-> doc_id,
                                    chunk_index |-> i - 1 ] ],
           list |-> list \o [ i \in 1..Len(embeddings) |->
                                  [ document_id |-> doc_id, chunk_index |-> i - 1 ] ] ]

\* _delete_from_faiss: the entries of the document leave the metadata list;
\* the index is not touched
DeleteFromFaiss(doc_id, index, list) ==
    LET Others(doc) == doc.document_id # doc_id
    IN [ index |-> index, list |-> SelectSeq(list, Others) ]

\* _update_faiss
UpdateFaiss(doc_id, embeddings, index, list) ==
    LET deleted == DeleteFromFaiss(doc_id, index, list)
    IN StoreInFaiss(doc_id, embeddings, deleted.index, deleted.list)

\* _search_faiss: one hit for each returned position that is below the
\* length of the metadata list, with the entry of the list at that
\* position; position keeps what FAISS matched
SearchFaiss(query, top_k, index, list) ==
    IF Len(list) = 0 THEN <<>>
    ELSE LET indices == IndexSearch(index, query, top_k)
             Listed(idx) == idx < Len(list)
             kept == SelectSeq(indices, Listed)
         IN [ r \in 1..Len(kept) |->
                [ document_id |-> ListItem(list, kept[r]).document_id,
                  chunk_index |-> ListItem(list, kept[r]).chunk_index,
                  position |-> kept[r] ] ]

\* embeddings of chunks and of queries
Points == {1, 4}

\* the embeddings of the chunks of one document: none (no text), one or two
MaxChunks == 2

ChunkEmbeddings == UNION { [ 1..n -> Points ] : n \in 0..MaxChunks }

\* top_k of the searches
TopK == 2

MaxVectorCalls == 4

\* store_document: a new id, the chunks in the index, the document
\* registered
StoreDocument ==
    /\ vpc = "ready"
    /\ vcount < MaxVectorCalls
    /\ \E embeddings \in ChunkEmbeddings :
          LET doc_id == vnext + 1
              stored == StoreInFaiss(doc_id, embeddings, faiss_index, faiss_documents)
          IN /\ faiss_index' = stored.index
             /\ faiss_documents' = stored.list
             /\ vdocuments' = vdocuments \cup {doc_id}
             /\ vnext' = doc_id
    /\ vcount' = vcount + 1
    /\ UNCHANGED <<vpc, vhits>>
    /\ UNCHANGED <<svars, rvars, fvars, avars, mvars, uvars, dvars, cvars, pvars, qvars, evars>>

\* update_document: raises for an unknown id, otherwise replaces the
\* chunks of the document
UpdateVectorDocument ==
    /\ vpc = "ready"
    /\ vcount < MaxVectorCalls
    /\ \E doc_id \in 1..MaxVectorCalls, embeddings \in ChunkEmbeddings :
          IF doc_id \notin vdocuments
          THEN UNCHANGED <<faiss_index, faiss_documents>>
          ELSE LET updated == UpdateFaiss(doc_id, embeddings, faiss_index, faiss_documents)
               IN /\ faiss_index' = updated.index
                  /\ faiss_documents' = updated.list
    /\ vcount' = vcount + 1
    /\ UNCHANGED <<vpc, vnext, vdocuments, vhits>>
    /\ UNCHANGED <<svars, rvars, fvars, avars, mvars, uvars, dvars, cvars, pvars, qvars, evars>>

\* delete_document: raises for an unknown id, otherwise removes the
\* document
DeleteVectorDocument ==
    /\ vpc = "ready"
    /\ vcount < MaxVectorCalls
    /\ \E doc_id \in 1..MaxVectorCalls :
          IF doc_id \notin vdocuments
          THEN UNCHANGED <<faiss_index, faiss_documents, vdocuments>>
          ELSE LET deleted == DeleteFromFaiss(doc_id, faiss_index, faiss_documents)
               IN /\ faiss_index' = deleted.index
                  /\ faiss_documents' = deleted.list
                  /\ vdocuments' = vdocuments \ {doc_id}
    /\ vcount' = vcount + 1
    /\ UNCHANGED <<vpc, vnext, vhits>>
    /\ UNCHANGED <<svars, rvars, fvars, avars, mvars, uvars, dvars, cvars, pvars, qvars, evars>>

\* retrieve_documents, its FAISS part
SearchVectorStore ==
    /\ vpc = "ready"
    /\ vcount < MaxVectorCalls
    /\ \E query \in Points :
          vhits' = SearchFaiss(query, TopK, faiss_index, faiss_documents)
    /\ vcount' = vcount + 1
    /\ UNCHANGED <<vpc, vnext, vdocuments, faiss_index, faiss_documents>>
    /\ UNCHANGED <<svars, rvars, fvars, avars, mvars, uvars, dvars, cvars, pvars, qvars, evars>>

\* no VectorStore
VectorIdle ==
    /\ vpc = "idle"
    /\ vcount = 0
    /\ vnext = 0
    /\ vdocuments = {}
    /\ faiss_index = <<>>
    /\ faiss_documents = <<>>
    /\ vhits = <<>>

----------------------------------------------------------------------------
(* POST /enhanced-document-analysis.  The content of an upload is a         *)
(* sequence of words, each standing for as many bytes; sizes count words.  *)
(* An UploadFile is its content and a read position.                       *)

\* file.read(): the content from the read position to the end
ReadUpload(content, position) == SubSeq(content, position + 1, Len(content))

\* bytes.decode('utf-8', errors='ignore'): what is no UTF-8 is left out
DecodeIgnore(content) ==
    LET Valid(w) == w # "0xFF"
    IN SelectSeq(content, Valid)

ContentPrefix == 1000

\* text[:ContentPrefix]
Truncate(text) == SubSeq(text, 1, IF Len(text) < ContentPrefix THEN Len(text) ELSE ContentPrefix)

\* the words of a file name
FilenameWords(filename) ==
    CASE filename = "test_resume.txt" -> <<"test_", "resume", ".txt">>
      [] filename = "q3.pdf" -> <<"q3", ".pdf">>
      [] OTHER -> <<>>

FinancialKeywords ==
    { <<"financial">>, <<"balance">>, <<"income">>, <<"profit">>, <<"revenue">>, <<"earnings">>,
      <<"cash", "flow">>, <<"assets">>, <<"liabilities">>, <<"10-k">>, <<"10-q">>, <<"sec">>,
      <<"quarterly">>, <<"annual">>, <<"report">>, <<"investment">>, <<"portfolio">> }

ResumeKeywords ==
    { <<"resume">>, <<"cv">>, <<"curriculum">>, <<"vitae">>, <<"experience">>, <<"education">>,
      <<"skills">>, <<"employment">>, <<"work", "history">>, <<"career">>, <<"objective">>,
      <<"references">>, <<"qualifications">>, <<"achievements">> }

TechKeywords ==
    { <<"technical">>, <<"manual">>, <<"specification">>, <<"documentation">>, <<"api">>,
      <<"software">>, <<"hardware">>, <<"system">>, <<"architecture">>, <<"design">> }

LegalKeywords ==
    { <<"contract">>, <<"agreement">>, <<"terms">>, <<"conditions">>, <<"legal">>, <<"law">>,
      <<"policy">>, <<"compliance">>, <<"regulation">>, <<"license">> }

AcademicKeywords ==
    { <<"research">>, <<"paper">>, <<"thesis">>, <<"dissertation">>, <<"study">>, <<"analysis">>,
      <<"journal">>, <<"academic">>, <<"university">>, <<"college">>, <<"degree">> }

\* sum(1 for keyword in keywords if keyword in content_lower)
KeywordScore(keywords, words) ==
    Cardinality({ keyword \in keywords : KeywordIn(keyword, words) })

\* the name a document type is reported under
DocumentTypeName(doc_type) ==
    CASE doc_type = "resume" -> "Resume/CV"
      [] doc_type = "technical" -> "Technical Documentation"
      [] doc_type = "legal" -> "Legal Document"
      [] doc_type = "academic" -> "Academic Document"
      [] doc_type = "financial" -> "Financial Document"
      [] OTHER -> "General Document"

\* analyze_document_content: the text looked at is the start of the decoded
\* content for a text content type and the file name otherwise; the type
\* with the most keywords wins, the first of the dictionary among equals;
\* the confidence is in hundredths
AnalyzeDocumentContent(filename, content, content_type) ==
    LET content_text == IF content_type = "text/plain"
                        THEN Truncate(DecodeIgnore(content))
                        ELSE FilenameWords(filename)
        order == <<"financial", "resume", "technical", "legal", "academic">>
        scores == [ financial |-> KeywordScore(FinancialKeywords, content_text),
                    resume |-> KeywordScore(ResumeKeywords, content_text),
                    technical |-> KeywordScore(TechKeywords, content_text),
                    legal |-> KeywordScore(LegalKeywords, content_text),
                    academic |-> KeywordScore(AcademicKeywords, content_text) ]
        highest == CHOOSE n \in 0..17 : /\ \E t \in DOMAIN scores : scores[t] = n
                                        /\ \A t \in DOMAIN scores : scores[t] <= n
        first == CHOOSE i \in 1..5 : /\ scores[order[i]] = highest
                                     /\ \A j \in 1..(i - 1) : scores[order[j]] # highest
        doc_type == IF highest > 0 THEN order[first] ELSE "general"
        confidence == IF 50 + 10 * highest > 95 THEN 95 ELSE 50 + 10 * highest
    IN [ success |-> TRUE,
         document_type |-> DocumentTypeName(doc_type),
         confidence_score |-> confidence,
         processing_method |-> "content_based_analysis",
         metadata |-> [ filename |-> filename, file_size |-> Len(content),
                        content_type |-> content_type ] ]

\* process_document: after the temporary file is made the upload is read
\* to its end; the processing of the copy returns the extracted data or
\* raises.  outcome is what the libraries do with this upload.
ProcessDocument(filename, content, position, outcome) ==
    IF outcome = "fails before reading"
    THEN [ raised |-> TRUE, position |-> position ]
    ELSE IF outcome = "fails after reading"
    THEN [ raised |-> TRUE, position |-> Len(content) ]
    ELSE [ raised |-> FALSE, position |-> Len(content),
           result |-> [ processing_method |-> "document_processor",
                        metadata |-> [ filename |-> filename,
                                       file_size |-> Len(ReadUpload(content, position)) ] ] ]

\* the uploads: a resume, a financial report with a byte that is no UTF-8,
\* an empty file
UploadContents ==
    { <<"work", "experience", "education", "skills">>,
      <<"0xFF", "annual", "report", "revenue">>,
      <<>> }

MaxEnhancedRequests == 2

\* a request arrives; the process either imported the document processor
\* or did not
ReceiveEnhancedRequest ==
    /\ epc = "ready"
    /\ ecount < MaxEnhancedRequests
    /\ erequest' \in [ filename : {"test_resume.txt", "q3.pdf"},
                       content : UploadContents,
                       content_type : {"text/plain", "application/pdf"},
                       available : BOOLEAN,
                       outcome : {"succeeds", "fails before reading", "fails after reading"} ]
    /\ efile' = 0
    /\ epc' = "received"
    /\ ecount' = ecount + 1
    /\ UNCHANGED eresponse
    /\ UNCHANGED <<svars, rvars, fvars, avars, mvars, uvars, dvars, cvars, pvars, qvars, vvars>>

\* enhanced_document_analysis
EnhancedDocumentAnalysis ==
    /\ epc = "received"
    /\ LET processed == IF erequest.available
                        THEN ProcessDocument(erequest.filename, erequest.content, efile,
                                             erequest.outcome)
                        ELSE [ raised |-> TRUE, position |-> efile ]
       IN IF ~processed.raised
          THEN /\ eresponse' = [ status_code |-> 200, content |-> processed.result ]
               /\ efile' = processed.position
          ELSE LET file_content == ReadUpload(erequest.content, processed.position)
               IN /\ eresponse' = [ status_code |-> 200,
                                    content |-> AnalyzeDocumentContent(erequest.filename,
                                                    file_content, erequest.content_type) ]
                  /\ efile' = 0
    /\ epc' = "ready"
    /\ UNCHANGED <<ecount, erequest>>
    /\ UNCHANGED <<svars, rvars, fvars, avars, mvars, uvars, dvars, cvars, pvars, qvars, vvars>>

\* no request to the endpoint
EnhancedIdle ==
    /\ epc = "idle"
    /\ ecount = 0
    /\ erequest = [ filename |-> "" ]
    /\ efile = 0
    /\ eresponse = [ status_code |-> 0 ]

----------------------------------------------------------------------------
(* POST /api/forecasting next to POST /api/sec-analysis in one process.    *)
(* Both mock generators use the random module, whose generator is one      *)
(* object of the process.  Prices are in cents.                            *)

\* round(x / 10000) for x >= 0
RoundTenThousandth(x) == (x + 5000) \div 10000

\* generate_mock_forecast_data in the generator state rng: what it returns
\* and the generator state it leaves.  Five draws of random.uniform give
\* base_price, volatility and the three predictions; seven of
\* random.randint follow for the confidence, risk and RSI figures.
GenerateMockForecastData(symbol, rng) ==
    LET base_price == Uniform(10000, 30000, Draw(rng, 1))
        shortTerm == RoundTenThousandth(base_price * Uniform(9000, 11500, Draw(rng, 3)))
        mediumTerm == RoundTenThousandth(base_price * Uniform(8500, 12500, Draw(rng, 4)))
        longTerm == RoundTenThousandth(base_price * Uniform(8000, 13500, Draw(rng, 5)))
        total == shortTerm + mediumTerm + longTerm
        market_trend == IF 10 * total > 33 * base_price THEN "Bullish"
                        ELSE IF 10 * total < 27 * base_price THEN "Bearish"
                        ELSE "Neutral"
    IN [ result |-> [ success |-> TRUE,
                      symbol |-> Upper(symbol),
                      pricePrediction |-> [ shortTerm |-> shortTerm,
                                            mediumTerm |-> mediumTerm,
                                            longTerm |-> longTerm ],
                      marketTrend |-> market_trend ],
         rng |-> [ rng EXCEPT !.pos = @ + 12 ] ]

MaxSharedRequests == 2

\* a request for POST /api/sec-analysis arrives
ArriveSecRequest ==
    /\ ppc = "serving"
    /\ mpc = "responded"
    /\ pcount < MaxSharedRequests
    /\ mrequest' \in [ ticker : {"AAPL", "msft", "ZZZ"},
                       analyzer : {"unavailable", "raises", "answers"} ]
    /\ mpc' = "request"
    /\ pcount' = pcount + 1
    /\ UNCHANGED <<mtickers, mcalls, mrng, mresponse>>
    /\ UNCHANGED <<ppc, pstart, prequest, presponse>>
    /\ UNCHANGED <<svars, rvars, fvars, avars, uvars, dvars, cvars, qvars, vvars, evars>>

\* POST /api/forecasting (forecasting_analysis): AIAnalyzer has no
\* generate_forecast, so the answer is the mock forecast
ForecastingAnalysis ==
    /\ ppc = "serving"
    /\ mpc = "responded"
    /\ pcount < MaxSharedRequests
    /\ \E symbol \in {"aapl", "zzz"} :
          LET mock_result == GenerateMockForecastData(symbol, mrng)
          IN /\ prequest' = [ symbol |-> symbol ]
             /\ presponse' = mock_result.result
             /\ mrng' = mock_result.rng
    /\ pcount' = pcount + 1
    /\ UNCHANGED <<mpc, mtickers, mcalls, mrequest, mresponse>>
    /\ UNCHANGED <<ppc, pstart>>
    /\ UNCHANGED <<svars, rvars, fvars, avars, uvars, dvars, cvars, qvars, vvars, evars>>

\* no process that serves both endpoints
SharedIdle ==
    /\ ppc = "idle"
    /\ pcount = 0
    /\ pstart = [ seed |-> SeedValue(""), pos |-> 0 ]
    /\ prequest = [ symbol |-> "" ]
    /\ presponse = [ success |-> FALSE ]

\* no forecast call
ForecastIdle ==
    /\ fpc = "idle"
    /\ frequest = [ symbol |-> "" ]
    /\ fdata = [ fault |-> "none" ]
    /\ fresult = [ predictions |-> <<>> ]
    /\ fnoise = <<>>
    /\ fresponse = NoForecastResponse
    /\ forecasts = <<>>

\* no strategy request in flight
StrategyIdle ==
    /\ spc = "idle"
    /\ srequest = [ symbol |-> "" ]
    /\ smarket = [ fault |-> "none" ]
    /\ slocals = NoLocals
    /\ srec = [ outcome |-> "none" ]
    /\ sresponse = NoResponse
    /\ strategies = <<>>

\* no direct call of _generate_recommendation_from_score
ScoreIdle ==
    /\ rpc = "idle"
    /\ rscore = 0
    /\ rtolerance = ""
    /\ rresult = [ action |-> "" ]

InitStrategy ==
    /\ spc = "pending"
    /\ srequest \in Requests
    /\ smarket \in MarketsFor(srequest)
    /\ slocals = NoLocals
    /\ srec = [ outcome |-> "none" ]
    /\ sresponse = NoResponse
    /\ strategies = <<>>
    /\ ScoreIdle
    /\ ForecastIdle
    /\ AnomalyIdle
    /\ SecIdle
    /\ UploadIdle
    /\ DocsIdle
    /\ CallsIdle
    /\ SharedIdle
    /\ QaIdle
    /\ VectorIdle
    /\ EnhancedIdle

NextStrategy == GetInvestmentRecommendation

SpecStrategy == InitStrategy /\ [][NextStrategy]_vars

----------------------------------------------------------------------------
(* _generate_recommendation_from_score on its own, over a grid of scores   *)
(* from -0.2 to above 1.2 in steps of 0.0005                               *)

MaxScoreSteps == 2800

ScoreGrid == { k * (One \div 2000) - One \div 5 : k \in 0..MaxScoreSteps }

CallRecommendationFromScore ==
    /\ rpc = "called"
    /\ rresult' = GenerateRecommendationFromScore(rscore, rtolerance)
    /\ rpc' = "returned"
    /\ UNCHANGED <<rscore, rtolerance>>
    /\ UNCHANGED <<svars, fvars, avars, mvars, uvars, dvars, cvars, pvars, qvars, vvars, evars>>

InitScore ==
    /\ rpc = "called"
    /\ rscore \in ScoreGrid
    /\ rtolerance \in RiskTolerances
    /\ rresult = [ action |-> "" ]
    /\ StrategyIdle
    /\ ForecastIdle
    /\ AnomalyIdle
    /\ SecIdle
    /\ UploadIdle
    /\ DocsIdle
    /\ CallsIdle
    /\ SharedIdle
    /\ QaIdle
    /\ VectorIdle
    /\ EnhancedIdle

NextScore == CallRecommendationFromScore

SpecScore == InitScore /\ [][NextScore]_vars

----------------------------------------------------------------------------
(* generate_forecast over histories of 0..MaxBars rows *)

MaxBars == 36

ForecastRequests ==
    [ symbol : {"aapl"},
      forecast_type : {"stock_price", "earnings", "revenue", "dividends"},
      timeframe : {"30d"},
      model_type : {"lstm"} ]

Histories ==
    { d \in [ fault : {"none", "fetch_raises", "step_raises"},
              msg : {"", "Input X contains NaN."},
              bars : 0..MaxBars,
              close : {50},
              avg_close : {50},
              avg_volume : {20},
              volume_trend : {NaN, Num(0), Num(One)},
              price_trend : {NaN, Num(0), Num(One \div 5)} ] :
        /\ (d.msg # "") <=> (d.fault = "step_raises")
        /\ d.volume_trend.ok <=> d.bars >= 2
        /\ d.price_trend.ok <=> d.bars >= 2 }

InitForecast ==
    /\ fpc = "pending"
    /\ frequest \in ForecastRequests
    /\ fdata \in Histories
    /\ fresult = [ predictions |-> <<>> ]
    /\ fnoise = <<>>
    /\ fresponse = NoForecastResponse
    /\ forecasts = <<>>
    /\ StrategyIdle
    /\ ScoreIdle
    /\ AnomalyIdle
    /\ SecIdle
    /\ UploadIdle
    /\ DocsIdle
    /\ CallsIdle
    /\ SharedIdle
    /\ QaIdle
    /\ VectorIdle
    /\ EnhancedIdle

NextForecast == CallGenerateForecast \/ CreateForecast

SpecForecast == InitForecast /\ [][NextForecast]_vars

----------------------------------------------------------------------------
(* AnomalyDetector on series of up to MaxSeries values and texts of up to   *)
(* MaxLines lines                                                           *)

MaxSeries == 15

MaxLines == 4

\* every series of up to 5 values, and the longer ones that are 100
\* throughout but for one value
Series ==
    UNION { [1..n -> {0, 50, 100, 110}] : n \in 0..5 }
    \cup { [ i \in 1..n |-> IF i = p THEN v ELSE 100 ] :
             n \in 6..MaxSeries, p \in 1..MaxSeries, v \in {50, 200} }

\* a line mentions sales, or all six metrics that are collected
Lines ==
    { l \in [ words : { {"sales"},
                        {"revenue", "profit", "cost", "cash flow", "debt", "asset"} },
              match : {"none", "commas", "number"},
              number : {0, 50, 200} ] :
        l.match # "number" => l.number = 0 }

Texts == UNION { [1..n -> Lines] : n \in 0..MaxLines }

InitAnomaly ==
    /\ \/ apc = "metric" /\ avalues \in Series /\ atext = <<>>
       \/ apc = "text" /\ atext \in Texts /\ avalues = <<>>
    /\ aresult = [ anomalies |-> <<>> ]
    /\ StrategyIdle
    /\ ScoreIdle
    /\ ForecastIdle
    /\ SecIdle
    /\ UploadIdle
    /\ DocsIdle
    /\ CallsIdle
    /\ SharedIdle
    /\ QaIdle
    /\ VectorIdle
    /\ EnhancedIdle

NextAnomaly == CallDetectMetricAnomalies \/ CallDetectAnomalies

SpecAnomaly == InitAnomaly /\ [][NextAnomaly]_vars

----------------------------------------------------------------------------
(* The mock SEC generator called twice, and POST /api/sec-analysis *)

Tickers == {"AAPL", "aapl", "MSFT", "Msft", "TECHCO", "techco", "BANKX", "ZZZ", "zzz"}

\* the states other code may have left the shared generator in
GeneratorStates ==
    [ seed : { SeedValue(""), SeedValue("AAPL") }, pos : {0, 3} ]

InitSec ==
    /\ \/ /\ mpc = "calls"
          /\ mtickers \in [1..2 -> Tickers]
          /\ mrequest = [ ticker |-> "" ]
       \/ /\ mpc = "request"
          /\ mtickers = <<>>
          /\ mrequest \in [ ticker : Tickers,
                             analyzer : {"unavailable", "raises", "answers"} ]
    /\ mcalls = <<>>
    /\ mrng \in GeneratorStates
    /\ mresponse = [ status |-> 0 ]
    /\ StrategyIdle
    /\ ScoreIdle
    /\ ForecastIdle
    /\ AnomalyIdle
    /\ UploadIdle
    /\ DocsIdle
    /\ CallsIdle
    /\ SharedIdle
    /\ QaIdle
    /\ VectorIdle
    /\ EnhancedIdle

NextSec == CallGenerateMockSecData \/ UseRandomElsewhere \/ SecAnalysis

SpecSec == InitSec /\ [][NextSec]_vars

----------------------------------------------------------------------------
(* Up to MaxUploads uploads into an empty upload directory and table *)

InitUpload ==
    /\ upc = "serving"
    /\ ucount = 0
    /\ ufile = [ filename |-> "" ]
    /\ uresponse = [ status |-> 0 ]
    /\ uploads = << >>
    /\ documents = <<>>
    /\ StrategyIdle
    /\ ScoreIdle
    /\ ForecastIdle
    /\ AnomalyIdle
    /\ SecIdle
    /\ DocsIdle
    /\ CallsIdle
    /\ SharedIdle
    /\ QaIdle
    /\ VectorIdle
    /\ EnhancedIdle

NextUpload == PostUpload

SpecUpload == InitUpload /\ [][NextUpload]_vars

----------------------------------------------------------------------------
(* Up to MaxDocRequests requests to the documents service, in any order    *)
(* and with uploads in flight                                               *)

MaxDocRequests == 4

InitDocs ==
    /\ dpc = "serving"
    /\ dcount = 0
    /\ dlimit = MaxDocRequests
    /\ dpending = <<>>
    /\ drequest = [ kind |-> "" ]
    /\ dresponse = [ status |-> 0 ]
    /\ analyses = <<>>
    /\ sentiments = <<>>
    /\ dbytes = << >>
    /\ StrategyIdle
    /\ ScoreIdle
    /\ ForecastIdle
    /\ AnomalyIdle
    /\ SecIdle
    /\ UploadIdle
    /\ CallsIdle
    /\ SharedIdle
    /\ QaIdle
    /\ VectorIdle
    /\ EnhancedIdle

NextDocs ==
    \/ SaveUpload
    \/ StoreUpload
    \/ DeleteDocumentRequest
    \/ AnalysisRequest
    \/ AnalyzeSentimentRequest

SpecDocs == InitDocs /\ [][NextDocs]_vars

----------------------------------------------------------------------------
(* Every endpoint that writes to a table.  A document is stored and has    *)
(* been analysed; up to MaxStoreRequests further requests reach the         *)
(* documents service, next to one strategy and one forecast request.        *)

MaxStoreRequests == 1

\* the documents service after an upload of report.pdf, a question about it
\* and an analysis of its sentiment
StoredFile == [ filename |-> "report.pdf", readable |-> TRUE ]

StoredUpload == UploadDocument(StoredFile, << >>, <<>>)

InitStore ==
    /\ dpc = "serving"
    /\ dcount = 0
    /\ dlimit = MaxStoreRequests
    /\ dpending = <<>>
    /\ drequest = [ kind |-> "sentiment", document_id |-> 1 ]
    /\ dresponse = [ status |-> 200 ]
    /\ uploads = StoredUpload.uploads
    /\ documents = StoredUpload.documents
    /\ dbytes = [ d \in {1} |-> StoredFile ]
    /\ \E question \in Questions :
          analyses = AnalyseDocument("qa", 1, question, documents, <<>>).results
    /\ sentiments = AnalyseDocument("sentiment", 1, "", documents, <<>>).results
    /\ upc = "idle"
    /\ ucount = 0
    /\ ufile = [ filename |-> "" ]
    /\ uresponse = [ status |-> 0 ]
    /\ spc = "pending"
    /\ srequest \in { r \in Requests : /\ r.risk_tolerance = "medium"
                                       /\ ~r.include_technical_analysis
                                       /\ ~r.include_fundamental_analysis }
    /\ smarket \in { m \in MarketsFor(srequest) : m.fault \in {"none", "empty"} }
    /\ slocals = NoLocals
    /\ srec = [ outcome |-> "none" ]
    /\ sresponse = NoResponse
    /\ strategies = <<>>
    /\ fpc = "pending"
    /\ frequest \in { r \in ForecastRequests : r.forecast_type = "stock_price" }
    /\ fdata \in { d \in Histories : /\ d.fault = "none"
                                     /\ d.bars = 2
                                     /\ d.volume_trend = Num(0)
                                     /\ d.price_trend = Num(0) }
    /\ fresult = [ predictions |-> <<>> ]
    /\ fnoise = <<>>
    /\ fresponse = NoForecastResponse
    /\ forecasts = <<>>
    /\ ScoreIdle
    /\ AnomalyIdle
    /\ SecIdle
    /\ CallsIdle
    /\ SharedIdle
    /\ QaIdle
    /\ VectorIdle
    /\ EnhancedIdle

NextStore ==
    \/ NextDocs
    \/ GetInvestmentRecommendation
    \/ CreateForecast

SpecStore == InitStore /\ [][NextStore]_vars

----------------------------------------------------------------------------
(* Up to MaxCallRequests requests, one after the other, and their calls *)

InitCalls ==
    /\ cpc = "waiting"
    /\ ccount = 0
    /\ crequest = [ kind |-> "" ]
    /\ ccalls = <<>>
    /\ StrategyIdle
    /\ ScoreIdle
    /\ ForecastIdle
    /\ AnomalyIdle
    /\ SecIdle
    /\ UploadIdle
    /\ DocsIdle
    /\ SharedIdle
    /\ QaIdle
    /\ VectorIdle
    /\ EnhancedIdle

NextCalls ==
    \/ ReceiveRequest
    \/ StrategyHistory
    \/ StrategyTechnical
    \/ StrategyInfo
    \/ StrategyRest
    \/ ForecastHistory
    \/ AskQuestionCalls

SpecCalls == InitCalls /\ [][NextCalls]_vars

----------------------------------------------------------------------------
(* Up to MaxSharedRequests requests to /api/sec-analysis and                *)
(* /api/forecasting, handled one after the other by one process             *)

InitShared ==
    /\ ppc = "serving"
    /\ pcount = 0
    /\ mrng \in GeneratorStates
    /\ pstart = mrng
    /\ prequest = [ symbol |-> "" ]
    /\ presponse = [ success |-> FALSE ]
    /\ mpc = "responded"
    /\ mtickers = <<>>
    /\ mcalls = <<>>
    /\ mrequest = [ ticker |-> "" ]
    /\ mresponse = [ status |-> 0 ]
    /\ StrategyIdle
    /\ ScoreIdle
    /\ ForecastIdle
    /\ AnomalyIdle
    /\ UploadIdle
    /\ DocsIdle
    /\ CallsIdle
    /\ QaIdle
    /\ VectorIdle
    /\ EnhancedIdle

NextShared == ArriveSecRequest \/ SecAnalysis \/ ForecastingAnalysis

SpecShared == InitShared /\ [][NextShared]_vars

----------------------------------------------------------------------------
(* Up to MaxQuestions questions to DocumentQA.ask_question *)

InitQa ==
    /\ qpc = "ready"
    /\ qcount = 0
    /\ qrequest = [ question |-> <<>> ]
    /\ qresponse = [ confidence |-> 0 ]
    /\ StrategyIdle
    /\ ScoreIdle
    /\ ForecastIdle
    /\ AnomalyIdle
    /\ SecIdle
    /\ UploadIdle
    /\ DocsIdle
    /\ CallsIdle
    /\ SharedIdle
    /\ VectorIdle
    /\ EnhancedIdle

NextQa == ReceiveQuestion \/ AnswerQuestion

SpecQa == InitQa /\ [][NextQa]_vars

----------------------------------------------------------------------------
(* Up to MaxVectorCalls calls on one VectorStore, from an empty index *)

InitVector ==
    /\ vpc = "ready"
    /\ vcount = 0
    /\ vnext = 0
    /\ vdocuments = {}
    /\ faiss_index = <<>>
    /\ faiss_documents = <<>>
    /\ vhits = <<>>
    /\ StrategyIdle
    /\ ScoreIdle
    /\ ForecastIdle
    /\ AnomalyIdle
    /\ SecIdle
    /\ UploadIdle
    /\ DocsIdle
    /\ CallsIdle
    /\ SharedIdle
    /\ QaIdle
    /\ EnhancedIdle

NextVector ==
    \/ StoreDocument
    \/ UpdateVectorDocument
    \/ DeleteVectorDocument
    \/ SearchVectorStore

SpecVector == InitVector /\ [][NextVector]_vars

----------------------------------------------------------------------------
(* Up to MaxEnhancedRequests requests to POST /enhanced-document-analysis *)

InitEnhanced ==
    /\ epc = "ready"
    /\ ecount = 0
    /\ erequest = [ filename |-> "" ]
    /\ efile = 0
    /\ eresponse = [ status_code |-> 0 ]
    /\ StrategyIdle
    /\ ScoreIdle
    /\ ForecastIdle
    /\ AnomalyIdle
    /\ SecIdle
    /\ UploadIdle
    /\ DocsIdle
    /\ CallsIdle
    /\ SharedIdle
    /\ QaIdle
    /\ VectorIdle

NextEnhanced == ReceiveEnhancedRequest \/ EnhancedDocumentAnalysis

SpecEnhanced == InitEnhanced /\ [][NextEnhanced]_vars

----------------------------------------------------------------------------
(* Claims about _generate_recommendation_from_score (SpecScore) *)

\* the thresholds as the specification tabulates them
SpecBuy(r) == IF r = "low" THEN Milli(700) ELSE IF r = "high" THEN Milli(600)
              ELSE Milli(650)

SpecSell(r) == IF r = "low" THEN Milli(300) ELSE IF r = "high" THEN Milli(400)
               ELSE Milli(350)

\* C1: for every score s and risk tolerance r the action is "buy" iff
\* s >= buy(r), "sell" iff s <= sell(r), and "hold" otherwise, with
\* (buy, sell) = (0.70, 0.30) for "low", (0.60, 0.40) for "high" and
\* (0.65, 0.35) for "medium" and any other r.
C1_ActionByThreshold ==
    rpc = "returned" =>
        /\ rresult.action \in {"buy", "sell", "hold"}
        /\ (rresult.action = "buy") <=> (rscore >= SpecBuy(rtolerance))
        /\ (rresult.action = "sell") <=> (rscore <= SpecSell(rtolerance))

\* a returned call with the score exactly on the buy threshold of an
\* unlisted risk tolerance
C1_Witness ==
    /\ rpc = "returned"
    /\ rtolerance = "aggressive"
    /\ rscore = Milli(650)
    /\ rresult.action = "buy"

\* C3: the confidence is (s - buy) / (1 - buy) for a buy and
\* (sell - s) / sell for a sell, each capped at 1, and 1/2 for a hold; it is 0
\* on the buy threshold, 1 for a buy only from s = 1 on, and within [0, 1]
\* for s in [0, 1].
C3_ConfidenceFormula ==
    rpc = "returned" =>
        LET c == rresult.confidence
            b == SpecBuy(rtolerance)
            l == SpecSell(rtolerance)
        IN /\ c.den > 0
           /\ (rresult.action = "buy" /\ rscore <= One)
                 => c.num * (One - b) = c.den * (rscore - b)
           /\ (rresult.action = "buy" /\ rscore > One) => c.num = c.den
           /\ (rresult.action = "sell" /\ rscore >= 0)
                 => c.num * l = c.den * (l - rscore)
           /\ (rresult.action = "sell" /\ rscore < 0) => c.num = c.den
           /\ rresult.action = "hold" => (c.num = 1 /\ c.den = 2)
           /\ rscore = b => c.num = 0
           /\ rresult.action = "buy" => ((c.num = c.den) <=> (rscore >= One))
           /\ (rscore >= 0 /\ rscore <= One) => (0 <= c.num /\ c.num <= c.den)

\* a buy above the maximum score, where the cap acts
C3_Witness ==
    /\ rpc = "returned"
    /\ rresult.action = "buy"
    /\ rscore > One
    /\ rresult.confidence = Frac(1, 1)

----------------------------------------------------------------------------
(* Claims about generate_recommendation and the endpoint (SpecStrategy) *)

\* the request was analysed to the end (no fault, no default recommendation)
Analysed == spc = "done" /\ smarket.fault = "none" /\ srec.outcome = "returned"

\* C2: the composite score lies in [0, 1] for every combination of
\* indicators, fundamental metrics and include flags.
C2_CompositeInUnitInterval ==
    Analysed => (0 <= srec.factors.v.overall_score
                 /\ srec.factors.v.overall_score <= One)

\* C4 as stated: risk tolerance "low" and a composite score of exactly 0.70
\* give "buy" with confidence 1.0.
C4_BuyAtThresholdFullConfidence ==
    (Analysed /\ srequest.risk_tolerance = "low"
        /\ srec.factors.v.overall_score = Milli(700))
    => (sresponse.recommendation = "buy" /\ sresponse.confidence_score = Frac(1, 1))

\* C4 as amended: risk tolerance "low" and a composite score of exactly 0.70
\* give "buy" with confidence 0.
C4_BuyAtThresholdZeroConfidence ==
    (Analysed /\ srequest.risk_tolerance = "low"
        /\ srec.factors.v.overall_score = Milli(700))
    => (sresponse.status = 200 /\ sresponse.recommendation = "buy"
        /\ sresponse.confidence_score = Frac(0, 1))

\* a "low" request answered on a composite score of exactly 0.70
C4_Witness ==
    /\ Analysed
    /\ srequest.risk_tolerance = "low"
    /\ srec.factors.v.overall_score = Milli(700)
    /\ sresponse.status = 200

\* C5: the composite score is 0.6 x technical + 0.4 x fundamental when both
\* analyses are requested, the technical score when only that one is, the
\* fundamental score when only that one is, and 0 when neither is.
C5_CompositeFormula ==
    Analysed =>
        LET o == srec.factors.v.overall_score
            t == slocals.technical_score
            f == slocals.fundamental_score
            it == srequest.include_technical_analysis
            if == srequest.include_fundamental_analysis
        IN /\ (it /\ if) => 10 * o = 6 * t + 4 * f
           /\ (it /\ ~if) => o = t
           /\ (~it /\ if) => o = f
           /\ (~it /\ ~if) => o = 0

\* both analyses requested, with scores that differ
C5_Witness ==
    /\ Analysed
    /\ srequest.include_technical_analysis
    /\ srequest.include_fundamental_analysis
    /\ slocals.technical_score > slocals.fundamental_score
    /\ slocals.fundamental_score > 0

\* C6: the technical score lies in [0, 1] and each of its five terms adds at
\* most its weight: moving averages 0.3, RSI 0.2, MACD 0.2, volume 0.15,
\* volatility 0.15.
C6_TechnicalScoreWithinWeights ==
    (Analysed /\ srequest.include_technical_analysis) =>
        LET ind == srec.factors.v.technical_indicators.v IN
        /\ 0 <= slocals.technical_score /\ slocals.technical_score <= One
        /\ MaTerm(ind) <= Milli(300)
        /\ RsiTerm(ind) <= Milli(200)
        /\ MacdTerm(ind) <= Milli(200)
        /\ VolumeTerm(ind) <= Milli(150)
        /\ VolatilityTerm(ind) <= Milli(150)

\* the data source gave none of P/E, P/B, dividend yield, beta, market cap
NoFundamentalFactor ==
    \/ smarket.info.raises
    \/ /\ ~smarket.info.trailingPE.ok /\ ~smarket.info.priceToBook.ok
       /\ ~smarket.info.dividendYield.ok /\ ~smarket.info.beta.ok
       /\ ~smarket.info.marketCap.ok

\* C7: when no fundamental factor can be computed the fundamental score used
\* is the neutral 0.5.
C7_NeutralFundamentalDefault ==
    (Analysed /\ srequest.include_fundamental_analysis /\ NoFundamentalFactor)
    => slocals.fundamental_score = Milli(500)

\* C8: the target price is current x (1 + 0.15 + d) for a buy and
\* current x (1 - (0.15 + d)) for a sell with 0 <= d <= 0.10, and the
\* current price for a hold.
C8_TargetPriceBand ==
    Analysed =>
        LET cur == smarket.last.close
            target == srec.target_price.v
        IN /\ srec.target_price.ok
           /\ srec.action = "buy" =>
                 /\ target >= cur * (One + Milli(150))
                 /\ target <= cur * (One + Milli(150) + Milli(100))
           /\ srec.action = "sell" =>
                 /\ target <= cur * (One - Milli(150))
                 /\ target >= cur * (One - Milli(150) - Milli(100))
           /\ srec.action = "hold" => target = cur * One

\* reading ticker.info raised during a fundamental analysis
InfoRaised ==
    smarket.fault = "none" /\ srequest.include_fundamental_analysis
    /\ smarket.info.raises

\* the default recommendation that names the failure
DefaultHoldNamingFailure ==
    /\ srec.action = "hold"
    /\ srec.confidence = Frac(3, 10)
    /\ Len(srec.reasoning) = 2
    /\ srec.reasoning[2] =
          IF smarket.fault = "empty" THEN "No data available"
          ELSE "Error: " \o smarket.msg

\* C9 as stated: generate_recommendation never raises, and with no data or
\* with any step raising it returns "hold" with confidence 0.3 and a
\* reasoning that holds the failure reason or the exception's message.
C9_DefaultHoldOnAnyFailure ==
    spc = "done" =>
        /\ srec.outcome = "returned"
        /\ (smarket.fault # "none" \/ InfoRaised) => DefaultHoldNamingFailure

\* C9 as amended: generate_recommendation never raises; with no price
\* history, or with an exception that reaches its own try block, it returns
\* "hold" with confidence 0.3 and a reasoning that holds the failure reason or
\* the exception's message; an exception raised by reading ticker.info is
\* caught in _analyze_fundamental_metrics and the analysis goes on with the
\* fallback metrics.
C9_NeverRaises ==
    spc = "done" =>
        /\ srec.outcome = "returned"
        /\ smarket.fault # "none" => DefaultHoldNamingFailure
        /\ InfoRaised =>
              /\ srec.factors.ok
              /\ srec.factors.v.fundamental_metrics = Some(FallbackMetrics)
        /\ sresponse.status = 200

\* a request whose analysis raised after the history had arrived
C9_Witness ==
    /\ spc = "done"
    /\ smarket.fault = "step_raises"
    /\ srec.outcome = "returned"
    /\ srec.action = "hold"

----------------------------------------------------------------------------
(* Claims about generate_forecast (SpecForecast) *)

\* the canonical empty answer: predicted_value 0.0 and no predictions
EmptyAnswer == fresult.predicted_value = Num(0) /\ fresult.predictions = <<>>

\* C10 as stated: whatever the forecast_type, a symbol with fewer than 10
\* historical bars gets predicted_value 0.0 and an empty predictions list.
C10_FewBarsEmptyForEveryType ==
    (fpc = "done" /\ fdata.bars < 10) => EmptyAnswer

\* C10 as amended: a request of a type other than earnings and revenue (it is
\* handled as a stock-price forecast) with fewer than 10 bars, or fewer than
\* 10 rows left once the derived columns are there (fewer than 30 bars), gets
\* predicted_value 0.0 and no predictions; every request gets them when no
\* bar came back; an earnings or revenue request with at least one bar gets
\* 4 predictions unless the routine raises.
C10_FewBarsEmptyForStockPrice ==
    fpc = "done" =>
        /\ (frequest.forecast_type \notin {"earnings", "revenue"}
              /\ (fdata.bars < 10 \/ fdata.bars - 20 < 10)) => EmptyAnswer
        /\ (fdata.bars = 0 \/ fdata.fault = "fetch_raises") => EmptyAnswer
        /\ (frequest.forecast_type \in {"earnings", "revenue"}
              /\ fdata.fault = "none" /\ fdata.bars >= 1)
              => Len(fresult.predictions) = 4

\* a stock-price request on 29 bars, of which 9 rows remain
C10_Witness ==
    /\ fpc = "done"
    /\ frequest.forecast_type = "stock_price"
    /\ fdata.fault = "none"
    /\ fdata.bars = 29
    /\ EmptyAnswer

\* the call hit one of the failures: no bar came back, the data source
\* raised, or the forecast routine raised
ForecastFailed ==
    fdata.bars = 0 \/ fdata.fault \in {"fetch_raises", "step_raises"}

\* accuracy_metrics holds an error message
HasErrorMessage ==
    \E entry \in fresult.accuracy_metrics :
        entry.key = "error" /\ entry.type = "str" /\ entry.text # ""

\* C11 as stated: generate_forecast never raises; on missing data, an
\* unreachable data source or an exception in a forecast routine it returns
\* predicted_value 0.0, no predictions and an error message inside
\* accuracy_metrics.
C11_FailureGivesErrorMessage ==
    (fpc = "done" /\ ForecastFailed) => (EmptyAnswer /\ HasErrorMessage)

\* C11 as amended: generate_forecast never raises; on missing data, an
\* unreachable data source or an exception in a forecast routine it returns
\* predicted_value 0.0 and no predictions; accuracy_metrics holds the
\* exception's message when a forecast routine raised, and is empty when no
\* bar came back or the data source was unreachable.
C11_FailureGivesEmptyResult ==
    (fpc = "done" /\ ForecastFailed) =>
        /\ EmptyAnswer
        /\ (fdata.bars = 0 \/ fdata.fault = "fetch_raises")
              => fresult.accuracy_metrics = {}
        /\ (fdata.bars > 0 /\ fdata.fault = "step_raises")
              => /\ HasErrorMessage
                 /\ \A entry \in fresult.accuracy_metrics : entry.text = fdata.msg

\* a forecast routine raised on a history that had arrived
C11_Witness ==
    /\ fpc = "done"
    /\ fdata.bars > 0
    /\ fdata.fault = "step_raises"
    /\ EmptyAnswer
    /\ HasErrorMessage

----------------------------------------------------------------------------
(* Claims about POST /api/v1/forecast/ (SpecForecast) *)

\* C12: POST /api/v1/forecast/ never answers with a 5xx; every payload
\* generate_forecast can return becomes a valid ForecastResponse and a
\* success response.
C12_NeverServerError ==
    fpc = "responded" => fresponse.status = 200

KnownForecastTypes == {"stock_price", "earnings", "revenue"}

\* C13 as stated: a request whose forecast_type is none of stock_price,
\* earnings, revenue is answered with HTTP 400 and no forecast row is stored.
C13_UnknownTypeRejected ==
    (fpc = "responded" /\ frequest.forecast_type \notin KnownForecastTypes)
        => (fresponse.status = 400 /\ forecasts = <<>>)

\* C13 as amended: a request whose forecast_type is none of stock_price,
\* earnings, revenue is never answered with HTTP 400: it is handled as a
\* stock-price forecast (5 predictions once 30 bars came back, the empty
\* result on fewer) and one forecast row is stored under the requested
\* forecast_type.
C13_UnknownTypeServedAsStockPrice ==
    (fpc = "responded" /\ frequest.forecast_type \notin KnownForecastTypes)
        => /\ fresponse.status # 400
           /\ Len(forecasts) = 1
           /\ forecasts[1].forecast_type = frequest.forecast_type
           /\ forecasts[1].predicted_value = fresult.predicted_value
           /\ (fdata.fault = "none" /\ fdata.bars >= 30)
                 => /\ Len(fresult.predictions) = 5
                    /\ fresult.historical_data = "price"
                    /\ fresponse.status = 200
                    /\ fresponse.predictions = fresult.predictions
           /\ (fdata.fault = "none" /\ fdata.bars < 30) => EmptyAnswer

\* a request for "dividends" answered with a five-day price forecast
C13_Witness ==
    /\ fpc = "responded"
    /\ frequest.forecast_type = "dividends"
    /\ fresponse.status = 200
    /\ Len(fresult.predictions) = 5
    /\ Len(forecasts) = 1

----------------------------------------------------------------------------
(* Claims about _forecast_stock_price (SpecForecast) *)

\* the call returned a stock-price forecast
StockPriceForecast ==
    /\ fpc \in {"done", "responded"}
    /\ fresult.historical_data = "price"

\* the drift factor of step k, in tenths
DriftTenths(k) == (One + fnoise[k]) \div (One \div 10)

\* C14 as stated: a successful stock-price forecast holds exactly 5
\* predictions; the k-th point prediction is the (k-1)-th projected price (the
\* last close for k = 1) times the step's drift factor; every entry has
\* confidence_lower = 0.95 x and confidence_upper = 1.05 x its point
\* prediction; predicted_value is the first entry's predicted_price.
C14_WalkExact ==
    StockPriceForecast =>
        /\ Len(fresult.predictions) = 5
        /\ fresult.predicted_value = fresult.predictions[1].predicted_price
        /\ \A k \in 1..5 :
              LET entry == fresult.predictions[k]
                  previous == IF k = 1 THEN fdata.close * One
                              ELSE fresult.predictions[k - 1].predicted_price.v
              IN /\ entry.predicted_price.v * 10 = previous * DriftTenths(k)
                 /\ entry.confidence_lower.v * 100 = entry.predicted_price.v * 95
                 /\ entry.confidence_upper.v * 100 = entry.predicted_price.v * 105

\* x is y to the nearest cent: a whole number of cents at most half a cent
\* (and the model's truncation of the sixth decimal) away
NearestCent(x, y) ==
    /\ x % Cent = 0
    /\ 2 * (x - y) <= Cent
    /\ 2 * (y - x) <= Cent + 2

\* C14 as amended: a successful stock-price forecast holds exactly 5
\* predictions; the k-th projected price is the (k-1)-th projected price (the
\* last close for k = 1) times the step's drift factor, and the walk goes on
\* from the unrounded price; the k-th entry reports the projected price,
\* 0.95 x it and 1.05 x it, each rounded to 2 decimals on its own;
\* predicted_value is the first entry's predicted_price.
C14_WalkRoundedToCents ==
    StockPriceForecast =>
        LET price[k \in 0..5] ==
                IF k = 0 THEN fdata.close * One
                ELSE (price[k - 1] * DriftTenths(k)) \div 10
        IN /\ Len(fresult.predictions) = 5
           /\ fresult.predicted_value = fresult.predictions[1].predicted_price
           /\ \A k \in 1..5 :
                 LET entry == fresult.predictions[k]
                 IN /\ NearestCent(entry.predicted_price.v, price[k])
                    /\ NearestCent(entry.confidence_lower.v, (price[k] * 95) \div 100)
                    /\ NearestCent(entry.confidence_upper.v, (price[k] * 105) \div 100)

\* a forecast whose walk fell by a tenth four times: the fourth price,
\* 32.805, is reported as a whole number of cents
C14_Witness ==
    /\ StockPriceForecast
    /\ \A k \in 1..4 : fnoise[k] = 0 - One \div 10
    /\ fresult.predictions[4].predicted_price.v # 3280500
    /\ fresult.predictions[4].predicted_price.v % Cent = 0

\* C15: for every number N >= 10 of usable feature rows the stock-price
\* forecast trains on the first floor(0.8 N) rows and tests on the other
\* N - floor(0.8 N), in chronological order, no row in both sets and none
\* dropped.  (Of a history of b bars the rows 21..b are usable.)
C15_HoldoutSplit ==
    StockPriceForecast =>
        LET N == fdata.bars - 20
            train == fresult.train_rows
            test == fresult.test_rows
        IN /\ N >= 10
           /\ 10 * Len(train) <= 8 * N
           /\ 8 * N < 10 * (Len(train) + 1)
           /\ Len(test) = N - Len(train)
           /\ train \o test = [ i \in 1..N |-> 20 + i ]

\* 11 usable rows: 8 to train on, 3 to test on
C15_Witness ==
    /\ StockPriceForecast
    /\ fdata.bars = 31
    /\ Len(fresult.train_rows) = 8
    /\ fresult.test_rows = <<29, 30, 31>>

----------------------------------------------------------------------------
(* Claims about AnomalyDetector (SpecAnomaly) *)

\* n times the deviation of avalues[i] from the mean
Deviation(i) == Len(avalues) * avalues[i] - SumSeq(avalues)

\* n^2 (n - 1) times the sample variance of avalues
SquaredDeviations ==
    SumSeq([ j \in 1..Len(avalues) |-> Deviation(j) * Deviation(j) ])

\* avalues[i] lies more than p/q standard deviations from the mean
FartherThan(i, p, q) ==
    q * q * Deviation(i) * Deviation(i) * (Len(avalues) - 1)
        > p * p * SquaredDeviations

\* the entries of the given type that report the value avalues[i]
Flagged(i, type) ==
    { k \in 1..Len(aresult.anomalies) :
        /\ aresult.anomalies[k].value = avalues[i]
        /\ aresult.anomalies[k].anomaly_type = type }

\* each value more than 2 standard deviations from the mean is flagged
\* "statistical_outlier", "high" beyond 3 and "medium" otherwise, and no
\* other value is
OutliersFlagged ==
    \A i \in 1..Len(avalues) :
        /\ FartherThan(i, 2, 1) <=> Flagged(i, "statistical_outlier") # {}
        /\ \A k \in Flagged(i, "statistical_outlier") :
              aresult.anomalies[k].severity =
                  IF FartherThan(i, 3, 1) THEN "high" ELSE "medium"

\* the call was given at least 2 values whose standard deviation is not 0
SeriesWithSpread ==
    /\ apc = "metric_done"
    /\ Len(avalues) >= 2
    /\ SquaredDeviations > 0

\* C16 as stated: on a series of at least 2 values with non-zero standard
\* deviation each value with |z| > 2.0 is flagged "statistical_outlier"
\* ("high" when |z| > 3, so at 3.5, else "medium"), and a value within 1
\* standard deviation of the mean is never flagged as an anomaly.
C16_OutliersAndNothingNearMean ==
    SeriesWithSpread =>
        /\ OutliersFlagged
        /\ \A i \in 1..Len(avalues) :
              ~FartherThan(i, 1, 1)
                 => \A k \in 1..Len(aresult.anomalies) :
                       aresult.anomalies[k].value # avalues[i]

\* C16 as amended: on a series of at least 2 values with non-zero standard
\* deviation each value with |z| > 2.0 is flagged "statistical_outlier"
\* ("high" when |z| > 3, so at 3.5, else "medium"), and a value within 1
\* standard deviation of the mean is never flagged "statistical_outlier"; it
\* is flagged "significant_change" exactly when it differs by more than 20%
\* from a non-zero value right before it.
C16_OutliersAndNoOutlierNearMean ==
    SeriesWithSpread =>
        /\ OutliersFlagged
        /\ \A i \in 1..Len(avalues) :
              ~FartherThan(i, 1, 1)
                 => /\ Flagged(i, "statistical_outlier") = {}
                    /\ (i >= 2 /\ avalues[i - 1] # 0
                          /\ 5 * Abs(avalues[i] - avalues[i - 1]) > Abs(avalues[i - 1]))
                          => Flagged(i, "significant_change") # {}
        /\ Cardinality({ k \in 1..Len(aresult.anomalies) :
                           aresult.anomalies[k].anomaly_type = "significant_change" })
              = Cardinality({ i \in 2..Len(avalues) :
                                /\ avalues[i - 1] # 0
                                /\ 5 * Abs(avalues[i] - avalues[i - 1])
                                      > Abs(avalues[i - 1]) })

\* a series with a value at least 3.5 standard deviations from the mean,
\* flagged "high", next to values within 1 standard deviation
C16_Witness ==
    /\ SeriesWithSpread
    /\ \E i \in 1..Len(avalues) :
          /\ ~FartherThan(i, 1, 1)
          /\ Flagged(i, "statistical_outlier") = {}
    /\ \E i \in 1..Len(avalues) :
          /\ FartherThan(i, 7, 2)
          /\ \E k \in Flagged(i, "statistical_outlier") :
                aresult.anomalies[k].severity = "high"

\* the anomalies of the given severity
OfSeverity(severity) ==
    { k \in 1..Len(aresult.anomalies) : aresult.anomalies[k].severity = severity }

\* ten times the sum of the severity weights of the anomalies
TotalWeight ==
    3 * Cardinality(OfSeverity("low")) + 6 * Cardinality(OfSeverity("medium"))
        + 10 * Cardinality(OfSeverity("high"))

\* C17: the risk score is the sum of the severity weights of the detected
\* anomalies (low 0.3, medium 0.6, high 1.0) over twice the number of
\* metric categories (8), capped at 1.0; it is 0.0 without anomaly and lies
\* in [0, 1] for every text.
C17_RiskScore ==
    apc = "text_done" =>
        LET risk == aresult.risk_score
        IN /\ risk.den > 0 /\ 0 <= risk.num /\ risk.num <= risk.den
           /\ aresult.anomalies = <<>> => risk.num = 0
           /\ TotalWeight <= 10 * 2 * 8
                 => risk.num * (10 * 2 * 8) = TotalWeight * risk.den
           /\ TotalWeight > 10 * 2 * 8 => risk.num = risk.den

\* a text whose anomalies weigh less than the cap (a risk score strictly
\* between 0 and 1)
C17_Witness ==
    /\ apc = "text_done"
    /\ aresult.anomalies # <<>>
    /\ 0 < aresult.risk_score.num
    /\ aresult.risk_score.num < aresult.risk_score.den

----------------------------------------------------------------------------
(* Claims about the mock SEC data (SpecSec) *)

\* both direct calls were made, with the same ticker in some letter case
TwoCallsSameTicker ==
    /\ mpc = "calls"
    /\ Len(mcalls) = 2
    /\ Upper(mtickers[1]) = Upper(mtickers[2])

\* C18: any two calls of generate_mock_sec_data with the same ticker, in any
\* letter case and whatever used the random source in between, return
\* identical sector, market-cap, revenue and P/E values.
C18_SameTickerSameData ==
    TwoCallsSameTicker =>
        /\ \A k \in 1..2 : mcalls[k].outcome = "returned"
        /\ mcalls[1].sector = mcalls[2].sector
        /\ mcalls[1].marketCap = mcalls[2].marketCap
        /\ mcalls[1].financialSnapshot.revenue = mcalls[2].financialSnapshot.revenue
        /\ mcalls[1].financialSnapshot.peRatio = mcalls[2].financialSnapshot.peRatio

\* C19: POST /api/sec-analysis always answers with company data and never
\* with an error; when the SEC analyzer is unavailable or raises, the answer
\* is what generate_mock_sec_data returns for the ticker, a complete record.
C19_AlwaysCompanyData ==
    mpc = "responded" =>
        /\ mresponse.status = 200
        /\ mresponse.body.outcome = "returned"
        /\ mrequest.analyzer \in {"unavailable", "raises"}
              => /\ mresponse.body.dataSource = "Mock Data for Development"
                 /\ mresponse.body.symbol = Upper(mrequest.ticker)

----------------------------------------------------------------------------
(* Claims about POST /documents/upload (SpecUpload) *)

\* the extension of the file handled last, compared case-insensitively, is
\* none of .pdf, .docx, .txt, .xlsx
ExtensionRefused(file) ==
    Lower(Splitext(file.filename)) \notin {".pdf", ".docx", ".txt", ".xlsx"}

\* C20: an upload whose filename extension is outside {.pdf, .docx, .txt,
\* .xlsx}, compared case-insensitively, is answered with HTTP 400 before any
\* file is written to storage, and no Document row is created.
C20_BadExtensionRejected ==
    [][ (ucount' = ucount + 1 /\ ExtensionRefused(ufile'))
          => /\ uresponse'.status = 400
             /\ uploads' = uploads
             /\ documents' = documents ]_vars

\* "tool.exe" was refused after another file had been stored
C20_Witness ==
    /\ ucount = 2
    /\ ufile.filename = "tool.exe"
    /\ uresponse.status = 400
    /\ Len(documents) = 1
    /\ DOMAIN uploads # {}

----------------------------------------------------------------------------
(* Claims about the documents service (SpecDocs, SpecStore, SpecUpload) *)

\* the step handled a new request of one of the given kinds
Handled(kinds) ==
    /\ dcount' = dcount + 1
    /\ drequest'.kind \in kinds

\* the step appended one row for a document that has a row, or left the
\* table alone
InsertedForExistingDocument(results, results_after) ==
    \/ results_after = results
    \/ /\ Len(results_after) = Len(results) + 1
       /\ SubSeq(results_after, 1, Len(results)) = results
       /\ FindDocument(documents, results_after[Len(results_after)].document_id) # <<>>
       /\ FindDocument(documents', results_after[Len(results_after)].document_id) # <<>>

\* C21: an AnalysisResult or SentimentAnalysis row is only inserted for a
\* document id whose Document row exists at the moment of insertion,
\* whatever the order of analysis and delete requests; a QA, anomaly or
\* sentiment request that names an absent document is answered 404 and
\* inserts nothing.
C21_RowsOnlyForExistingDocuments ==
    [][ /\ InsertedForExistingDocument(analyses, analyses')
        /\ InsertedForExistingDocument(sentiments, sentiments')
        /\ (Handled({"qa", "anomaly", "sentiment"})
              /\ FindDocument(documents, drequest'.document_id) = <<>>)
             => /\ dresponse'.status = 404
                /\ analyses' = analyses
                /\ sentiments' = sentiments ]_vars

\* a document was analysed and deleted, and the next request for it was
\* refused
C21_Witness ==
    /\ drequest.kind = "sentiment"
    /\ dresponse.status = 404
    /\ documents = <<>>
    /\ \E k \in 1..Len(analyses) : analyses[k].document_id = drequest.document_id

\* C22: after a successful DELETE of a document neither its Document row
\* nor its backing file exists; a DELETE of an absent document id is
\* answered 404 and changes nothing.
C22_DeleteRemovesRowAndFile ==
    [][ Handled({"delete"})
          => LET found == FindDocument(documents, drequest'.document_id)
             IN IF found # <<>>
                THEN /\ dresponse'.status = 200
                     /\ FindDocument(documents', drequest'.document_id) = <<>>
                     /\ found[1].file_path \notin DOMAIN uploads'
                ELSE /\ dresponse'.status = 404
                     /\ UNCHANGED <<uploads, documents, analyses, sentiments,
                                    dpending, dbytes>> ]_vars

\* a stored document was deleted: no row and no file are left
C22_Witness ==
    /\ drequest.kind = "delete"
    /\ dresponse.status = 200
    /\ drequest.document_id \in DOMAIN dbytes
    /\ documents = <<>>
    /\ DOMAIN uploads = {}

\* the rows of the table before the step are its first rows after it
OnlyAppended(rows, rows_after) ==
    /\ Len(rows) <= Len(rows_after)
    /\ SubSeq(rows_after, 1, Len(rows)) = rows

\* C23: a row once inserted into AnalysisResult, FinancialForecast,
\* InvestmentStrategy or SentimentAnalysis is never modified or removed, and
\* a Document row is never modified, only deleted as a whole.
C23_RowsNeverModified ==
    [][ /\ OnlyAppended(analyses, analyses')
        /\ OnlyAppended(forecasts, forecasts')
        /\ OnlyAppended(strategies, strategies')
        /\ OnlyAppended(sentiments, sentiments')
        /\ \A i \in 1..Len(documents), k \in 1..Len(documents') :
              documents'[k].id = documents[i].id => documents'[k] = documents[i] ]_vars

\* every table holds a row, and the document was deleted after its analyses
C23_Witness ==
    /\ strategies # <<>>
    /\ forecasts # <<>>
    /\ analyses # <<>>
    /\ sentiments # <<>>
    /\ drequest.kind = "delete"
    /\ dresponse.status = 200
    /\ documents = <<>>

\* C27: after any uploads and deletes every Document row still has its
\* backing file at its file_path, holding the bytes uploaded for that
\* document, also when two uploads carry the same filename.
C27_EveryDocumentKeepsItsFile ==
    \A k \in 1..Len(documents) :
        /\ documents[k].file_path \in DOMAIN uploads
        /\ uploads[documents[k].file_path] = dbytes[documents[k].id]

\* C28: an upload that fails after the extension check leaves the system as
\* it was before the request: no file remains in the upload directory and
\* no Document row is created.
C28_FailedUploadLeavesNothing ==
    [][ (ucount' = ucount + 1 /\ uresponse'.status = 500)
          => /\ uploads' = uploads
             /\ documents' = documents ]_vars

----------------------------------------------------------------------------
(* Claims about outbound calls (SpecCalls) *)

\* no call of the current request was made after a failed call to the same
\* service
NoCallRepeatedAfterFailure ==
    \A i \in 1..Len(ccalls), j \in 1..Len(ccalls) :
        (i < j /\ ~ccalls[i].ok) => ccalls[j].service # ccalls[i].service

----------------------------------------------------------------------------
(* Claims about the state requests share (SpecShared) *)

\* C25: requests share no mutable in-process state: the result of a request
\* does not depend on what an earlier request left in the process, so the
\* answer to a forecasting request is the one the process would have given
\* had it handled no other request before.
C25_RequestsShareNoState ==
    prequest.symbol # ""
       => presponse = GenerateMockForecastData(prequest.symbol, pstart).result

----------------------------------------------------------------------------
(* Claims about DocumentQA.ask_question (SpecQa) *)

\* ask_question has returned for the question in qrequest
QuestionAnswered == qpc = "ready" /\ qcount > 0

\* the LLM is not used, or its call fails
NoLlmAnswer == qrequest.api_key = "" \/ qrequest.llm # "answers"

\* C26 (as stated): when no API key is configured, or when the LLM call
\* raises, ask_question returns exactly the rule-based answer for the same
\* document content and question.
C26_RuleBasedWithoutLlm ==
    (QuestionAnswered /\ NoLlmAnswer)
       => qresponse = AskRuleBased(qrequest.document_content, qrequest.question)

\* C26 (amended): ask_question always returns an answer, whatever the LLM
\* call does; for a document with content, when no API key is configured
\* or the LLM call raises, the answer is exactly the rule-based answer for
\* the same content and question; for a document without content it is the
\* fixed answer that no content is available, with confidence 0.
C26_RuleBasedWithoutLlmGivenContent ==
    QuestionAnswered
       => /\ "answer" \in DOMAIN qresponse
          /\ (qrequest.document_content # <<>> /\ NoLlmAnswer)
                => qresponse = AskRuleBased(qrequest.document_content, qrequest.question)
          /\ qrequest.document_content = <<>>
                => /\ qresponse.answer = <<"No document content available to answer the question.">>
                   /\ qresponse.confidence = 0

\* an API key is configured, the LLM call raised, and the answer is the
\* revenue figure the rules extract from the document
C26_Witness ==
    /\ QuestionAnswered
    /\ qrequest.api_key # ""
    /\ qrequest.llm = "raises"
    /\ qrequest.document_content # <<>>
    /\ qresponse.answer = <<"The revenue is $", "1200">>

----------------------------------------------------------------------------
(* Claims about VectorStore (SpecVector) *)

\* C29: after any sequence of store_document, update_document and
\* delete_document calls, every hit of a FAISS search that stands for a
\* matched vector is attributed to the document and chunk that vector was
\* computed from, and that document is still stored.
C29_HitsAttributedToMatchedChunk ==
    \A r \in 1..Len(vhits) :
       vhits[r].position >= 0
          => /\ vhits[r].document_id = faiss_index[vhits[r].position + 1].document_id
             /\ vhits[r].chunk_index = faiss_index[vhits[r].position + 1].chunk_index
             /\ vhits[r].document_id \in vdocuments

----------------------------------------------------------------------------
(* Claims about POST /enhanced-document-analysis (SpecEnhanced) *)

\* C30: the endpoint always answers 200, and when the answer is the
\* content-based analysis, it is the analysis of the complete content of
\* the upload, with its true size, whether the document processor was
\* unavailable or was tried and failed.
C30_FallbackAnalysesWholeFile ==
    (epc = "ready" /\ ecount > 0)
       => /\ eresponse.status_code = 200
          /\ eresponse.content.processing_method = "content_based_analysis"
                => eresponse.content = AnalyzeDocumentContent(erequest.filename,
                                           erequest.content, erequest.content_type)

====
